---- MODULE Spec2Model ----
(***************************************************************************)
(* Model of the aat-ai code runtime (src/utils/run_time.py) and markdown   *)
(* parser (src/utils/parsers.py).                                          *)
(*                                                                         *)
(* Python source text is a TLA+ string; a code block is a sequence of      *)
(* source lines joined by line breaks.  What the interpreter does with a   *)
(* line is given by Stmt, a table over the lines the model submits.        *)
(* Python values are records [type, name, val] of strings.                 *)
(***************************************************************************)
EXTENDS Integers, Sequences, FiniteSets, TLC

VARIABLES
    imports,     \* PythonCodeRunTime.imports: the import block run at construction
    validator,   \* PythonCodeRunTime.validator: None or a PythonValidator
    variables,   \* PythonCodeRunTime.variables: the seeded keyword arguments
    namespace,   \* PythonCodeRunTime.namespace: bound name -> value
    code,        \* the code of the latest run_code / validate call
    pre,         \* the namespace as the latest run_code call found it
    outcome,     \* what the latest call returned or raised
    markdown,    \* the text given to MarkdownParser
    parsed,      \* what MarkdownParser returned for it
    row_text,    \* the text a TextCodeRow is built from
    row,         \* the TextCodeRow
    information, \* what the row's get_information returned or raised
    code_block,  \* a PythonCodeBlock
    clicks,      \* the Run clicks on the block so far
    run_exc,     \* the exception the latest run(event) ended with, "" for none
    event,       \* the latest thing done to the block: "none", "click", "input"
    conversation, \* the LLMConversation object
    loop,        \* the event loop: the scheduled watcher calls of _chat, and the
                 \* coroutines of _chat awaiting the model
    turns        \* the messages the user has submitted so far

rtvars == <<imports, validator, variables, namespace, code, pre, outcome>>
mdvars == <<markdown, parsed>>
rowvars == <<row_text, row, information>>
blockvars == <<code_block, clicks, run_exc, event>>
chatvars == <<conversation, loop, turns>>
vars == <<imports, validator, variables, namespace, code, pre, outcome,
          markdown, parsed, row_text, row, information, code_block, clicks, run_exc,
          event, conversation, loop, turns>>

(***************************************************************************)
(* Bounds                                                                  *)
(***************************************************************************)
MaxCodeLines == 2        \* lines of one code block given to run_code
MaxValidatedLines == 2   \* lines of one code block given to validate alone
MaxTokens == 7           \* tokens (fence, backtick, letter, line break, space) of a markdown text
MaxRowTokens == 6        \* tokens (fence, backtick, letter, line break, the word python) of a row's text
MaxOutputs == 2          \* values in the tuple one run_code call returns to a block
MaxClicks == 3           \* Run clicks on one block

(***************************************************************************)
(* Text helpers (Python str operations)                                    *)
(***************************************************************************)
None == [type |-> "NoneType"]

\* s[i:].startswith(pat), 1-based
StartsAt(s, i, pat) ==
    /\ i + Len(pat) - 1 <= Len(s)
    /\ SubSeq(s, i, i + Len(pat) - 1) = pat

\* `pat in s`
Contains(s, pat) == \E i \in 1..Len(s) : StartsAt(s, i, pat)

\* the character class \S of the regex in validate
NonSpaceAt(s, i) == i <= Len(s) /\ SubSeq(s, i, i) \notin {" ", "\n", "\t"}

RECURSIVE JoinLines(_)
\* "\n".join(lines)
JoinLines(lines) ==
    IF Len(lines) = 0 THEN ""
    ELSE IF Len(lines) = 1 THEN lines[1]
    ELSE lines[1] \o "\n" \o JoinLines(Tail(lines))

(***************************************************************************)
(* The Python lines the model submits, and what the interpreter does with  *)
(* each (compile + exec of one statement)                                  *)
(***************************************************************************)
IntValue(repr) == [type |-> "int", name |-> "", val |-> repr]
ModuleValue(n) == [type |-> "module", name |-> n, val |-> ""]
FunctionValue(n, body) == [type |-> "function", name |-> n, val |-> body]

Stmt(line) ==
    CASE line = "x = 2" ->
           [op |-> "assign", name |-> "x", value |-> IntValue("2")]
      [] line = "import os" ->
           [op |-> "import", name |-> "os", value |-> ModuleValue("os")]
      [] line = "from os import path" ->
           [op |-> "importfrom", name |-> "path", value |-> ModuleValue("os.path")]
      [] line = "def f(x): return x" ->
           [op |-> "def", name |-> "f", value |-> FunctionValue("f", "return x")]
      [] line = "def g(x): return x" ->
           [op |-> "def", name |-> "g", value |-> FunctionValue("g", "return x")]
      [] line = "def f(x): raise ValueError('bad')" ->
           [op |-> "def", name |-> "f", value |-> FunctionValue("f", "raise ValueError('bad')")]
      [] line = "raise RuntimeError('boom')" ->
           [op |-> "raise", name |-> "RuntimeError", value |-> IntValue("boom")]
      [] line = "def f(:" ->
           [op |-> "syntaxerror", name |-> "", value |-> IntValue("invalid syntax")]
      [] OTHER ->
           \* comments, expression statements and assignments to names the
           \* model does not follow
           [op |-> "pass", name |-> "", value |-> IntValue("")]

(***************************************************************************)
(* PythonValidator (run_time.py 104-160)                                   *)
(***************************************************************************)
\* PythonValidator.__init__: the four flags; save_funcs is fixed
PythonValidator(imports_, links_, save_, exec_) ==
    [type |-> "PythonValidator",
     check_imports |-> imports_, check_links |-> links_,
     check_save_funcs |-> save_, check_exec_eval |-> exec_]

\* save_funcs with one name left out
save_funcs_without_open == {"write", "save", "dump"}

save_funcs == {"open", "write", "save", "dump"}

Raised(exc, msg) ==
    [status |-> "raised", exc |-> exc, msg |-> msg, value |-> None, invoked |-> FALSE]
Returned(v, inv) ==
    [status |-> "returned", exc |-> "", msg |-> "", value |-> v, invoked |-> inv]
NoCall ==
    [status |-> "none", exc |-> "", msg |-> "", value |-> None, invoked |-> FALSE]

\* ast.parse(code): fails when a line does not compile
ParseFails(lines) == \E i \in 1..Len(lines) : Stmt(lines[i]).op = "syntaxerror"

\* any(isinstance(node, ast.Import) or isinstance(node, ast.ImportFrom) ...)
HasImportNode(lines) ==
    \E i \in 1..Len(lines) : Stmt(lines[i]).op \in {"import", "importfrom"}

\* re.search(r'https?://\S+|www\.\S+', code)
LinkRegexMatches(text) ==
    \E i \in 1..Len(text) :
        \/ StartsAt(text, i, "http://") /\ NonSpaceAt(text, i + 7)
        \/ StartsAt(text, i, "https://") /\ NonSpaceAt(text, i + 8)
        \/ StartsAt(text, i, "www.") /\ NonSpaceAt(text, i + 4)

\* any(func in code for func in self.save_funcs)
HasSaveFunc(text) == \E func \in save_funcs : Contains(text, func)

\* 'exec' in code or 'eval' in code
HasExecEval(text) == Contains(text, "exec") \/ Contains(text, "eval")

ImportsMsg == "The code contains import statements, which are not allowed."
LinksMsg == "The code contains links, which are not allowed."
SaveMsg == "The code contains functions that might be used to save data, which are not allowed."
ExecEvalMsg == "The code contains usage of exec or eval, which are not allowed."

\* PythonValidator.validate: the four checks in order; falling off the end
\* returns None
validate(self, lines) ==
    LET text == JoinLines(lines) IN
    IF self.check_imports /\ ParseFails(lines)
        THEN Raised("SyntaxError", "invalid syntax")
    ELSE IF self.check_imports /\ HasImportNode(lines)
        THEN Raised("PythonValidatorError", ImportsMsg)
    ELSE IF self.check_links /\ LinkRegexMatches(text)
        THEN Raised("PythonValidatorError", LinksMsg)
    ELSE IF self.check_save_funcs /\ HasSaveFunc(text)
        THEN Raised("PythonValidatorError", SaveMsg)
    ELSE IF self.check_exec_eval /\ HasExecEval(text)
        THEN Raised("PythonValidatorError", ExecEvalMsg)
    ELSE Returned(None, FALSE)

(***************************************************************************)
(* PythonCodeRunTime (run_time.py 20-99)                                   *)
(***************************************************************************)
function_name == "f"

\* bool(obj) for the objects the runtime tests: None is false, a
\* PythonValidator instance is true
Truthy(v) == v.type /= "NoneType"

\* namespace[name] = value
Bind(ns, name, value) == (name :> value) @@ ns

RECURSIVE ExecFrom(_, _, _)
\* the statements of a compiled block, run in order from the i-th on; a
\* raise stops the block and leaves the bindings made so far
ExecFrom(lines, i, ns) ==
    IF i > Len(lines) THEN [ns |-> ns, exc |-> "", msg |-> ""]
    ELSE LET s == Stmt(lines[i]) IN
         IF s.op = "raise" THEN [ns |-> ns, exc |-> s.name, msg |-> s.value.val]
         ELSE IF s.op = "pass" THEN ExecFrom(lines, i + 1, ns)
         ELSE ExecFrom(lines, i + 1, Bind(ns, s.name, s.value))

\* Exec changed to run the block on a copy of the namespace that is kept only
\* when the block ends normally
Exec_on_copy(lines, ns) ==
    IF ParseFails(lines) THEN [ns |-> ns, exc |-> "SyntaxError", msg |-> "invalid syntax"]
    ELSE LET run == ExecFrom(lines, 1, ns) IN
         IF run.exc /= "" THEN [run EXCEPT !.ns = ns] ELSE run

\* exec(code, namespace): the block is compiled whole before any of it runs
Exec(lines, ns) ==
    IF ParseFails(lines) THEN [ns |-> ns, exc |-> "SyntaxError", msg |-> "invalid syntax"]
    ELSE ExecFrom(lines, 1, ns)

\* function(**kwargs) for the function objects of Stmt
Call(function, kwargs) ==
    IF function.type /= "function"
        THEN Raised("TypeError", "object is not callable")
    ELSE IF DOMAIN kwargs /= {"x"}
        THEN [Raised("TypeError", "unexpected keyword arguments") EXCEPT !.invoked = FALSE]
    ELSE IF function.val = "return x"
        THEN Returned(kwargs["x"], TRUE)
    ELSE [Raised("ValueError", "bad") EXCEPT !.invoked = TRUE]

\* what _compile_function does once validation is behind it: exec, then the
\* lookup of the function name
CompileChecked(ns, lines, fname) ==
    LET run == Exec(lines, ns) IN
    IF run.exc /= ""
        THEN [ns |-> run.ns, failed |-> TRUE, result |-> Raised(run.exc, run.msg)]
    ELSE IF fname \notin DOMAIN run.ns
        THEN [ns |-> run.ns, failed |-> TRUE,
              result |-> Raised("KeyError", "'" \o fname \o "'")]
    ELSE [ns |-> run.ns, failed |-> FALSE, result |-> run.ns[fname]]

\* _compile_function changed to exec the code before it asks the validator
_compile_function_exec_first(self, lines, fname) ==
    LET done == CompileChecked(self.namespace, lines, fname)
        checked == IF Truthy(self.validator)
                       THEN validate(self.validator, lines)
                       ELSE NoCall
    IN  IF Truthy(self.validator) /\ checked.status = "raised"
            THEN [ns |-> done.ns, failed |-> TRUE, result |-> checked]
        ELSE IF Truthy(self.validator) /\ ~Truthy(checked.value)
            THEN [ns |-> done.ns, failed |-> TRUE,
                  result |-> Raised("ValueError", "Code failed validation")]
        ELSE done

\* _compile_function changed to turn a validator rejection into its own
\* ValueError
_compile_function_one_kind(self, lines, fname) ==
    LET checked == IF Truthy(self.validator)
                       THEN validate(self.validator, lines)
                       ELSE NoCall
    IN  IF Truthy(self.validator) /\ (checked.status = "raised" \/ ~Truthy(checked.value))
            THEN [ns |-> self.namespace, failed |-> TRUE,
                  result |-> Raised("ValueError", "Code failed validation")]
        ELSE CompileChecked(self.namespace, lines, fname)

\* PythonCodeRunTime._compile_function: [ns, failure or the function found]
_compile_function(self, lines, fname) ==
    LET checked == IF Truthy(self.validator)
                       THEN validate(self.validator, lines)
                       ELSE NoCall
    IN  IF Truthy(self.validator) /\ checked.status = "raised"
            THEN [ns |-> self.namespace, failed |-> TRUE, result |-> checked]
        ELSE IF Truthy(self.validator) /\ ~Truthy(checked.value)
            THEN [ns |-> self.namespace, failed |-> TRUE,
                  result |-> Raised("ValueError", "Code failed validation")]
        ELSE CompileChecked(self.namespace, lines, fname)

\* run_code changed to pass the namespace's current bindings of the seeded
\* names
run_code_namespace_args(self, lines) ==
    LET compiled == _compile_function(self, lines, function_name) IN
    IF compiled.failed
        THEN [ns |-> compiled.ns, outcome |-> compiled.result]
        ELSE [ns |-> compiled.ns,
              outcome |-> Call(compiled.result,
                               [k \in DOMAIN self.variables |-> compiled.ns[k]])]

\* run_code changed to start every call from a namespace holding the seeded
\* variables alone
run_code_fresh_namespace(self, lines) ==
    LET compiled == _compile_function([self EXCEPT !.namespace = self.variables],
                                      lines, function_name) IN
    IF compiled.failed
        THEN [ns |-> compiled.ns, outcome |-> compiled.result]
        ELSE [ns |-> compiled.ns, outcome |-> Call(compiled.result, self.variables)]

\* PythonCodeRunTime.run_code: [ns, outcome]
run_code(self, lines) ==
    LET compiled == _compile_function(self, lines, function_name) IN
    IF compiled.failed
        THEN [ns |-> compiled.ns, outcome |-> compiled.result]
        ELSE [ns |-> compiled.ns, outcome |-> Call(compiled.result, self.variables)]

(***************************************************************************)
(* MarkdownParser (parsers.py).  A markdown text is a sequence of          *)
(* characters; Tick stands for the backtick, which a TLA+ string cannot    *)
(* hold.                                                                   *)
(***************************************************************************)
Tick == "tick"
Fence == <<Tick, Tick, Tick>>

\* the regex class \w, over the characters of the model
IsWordChar(c) == c \in {"a", "b", "_", "0", "p", "y", "t", "h", "o", "n"}

\* str.strip() removes these
IsSpaceChar(c) == c \in {" ", "\n", "\t"}

RECURSIVE WordRun(_, _)
\* length of the longest run of word characters starting at position j: what
\* the greedy \w+ takes
WordRun(s, j) ==
    IF j <= Len(s) /\ IsWordChar(s[j]) THEN 1 + WordRun(s, j + 1) ELSE 0

RECURSIVE Strip(_)
\* str.strip()
Strip(s) ==
    IF Len(s) = 0 THEN s
    ELSE IF IsSpaceChar(s[1]) THEN Strip(Tail(s))
    ELSE IF IsSpaceChar(s[Len(s)]) THEN Strip(SubSeq(s, 1, Len(s) - 1))
    ELSE s

\* least element of a nonempty set of positions
Least(S) == CHOOSE i \in S : \A j \in S : i <= j

\* positions where r"```(\w+)\n" matches: a fence, one or more word
\* characters, a line break
LanguageMatches(s) ==
    {i \in 1..Len(s) :
        /\ StartsAt(s, i, Fence)
        /\ WordRun(s, i + 3) >= 1
        /\ i + 3 + WordRun(s, i + 3) <= Len(s)
        /\ s[i + 3 + WordRun(s, i + 3)] = "\n"}

\* MarkdownParser.get_language: group 1 of the leftmost match, "" without one
get_language(markdown_text) ==
    IF LanguageMatches(markdown_text) = {} THEN <<>>
    ELSE LET i == Least(LanguageMatches(markdown_text)) IN
         SubSeq(markdown_text, i + 3, i + 2 + WordRun(markdown_text, i + 3))

\* positions where f"```{language}(.*?)```" matches under re.DOTALL: a fence
\* followed by the language, and a fence somewhere after it
CodeMatches(s, language) ==
    {i \in 1..Len(s) :
        /\ StartsAt(s, i, Fence \o language)
        /\ \E j \in (i + 3 + Len(language))..Len(s) : StartsAt(s, j, Fence)}

\* get_code_block changed to fall back to the whole text, stripped, when the
\* pattern matches nowhere
CodeBlockFor_whole_text(s, language) ==
    IF CodeMatches(s, language) = {} THEN Strip(s)
    ELSE LET i == Least(CodeMatches(s, language))
             from == i + 3 + Len(language)
             j == Least({k \in from..Len(s) : StartsAt(s, k, Fence)})
         IN  Strip(SubSeq(s, from, j - 1))

\* lines 29-32 of get_code_block: the lazy group of the leftmost match,
\* stripped; "" without a match
CodeBlockFor(s, language) ==
    IF CodeMatches(s, language) = {} THEN <<>>
    ELSE LET i == Least(CodeMatches(s, language))
             from == i + 3 + Len(language)
             j == Least({k \in from..Len(s) : StartsAt(s, k, Fence)})
         IN  Strip(SubSeq(s, from, j - 1))

\* get_code_block changed to search for the fences alone, without the language
get_code_block_without_language(markdown_text) == CodeBlockFor(markdown_text, <<>>)

\* MarkdownParser.get_code_block(markdown_text), language left at None
get_code_block(markdown_text) ==
    CodeBlockFor(markdown_text, get_language(markdown_text))

\* MarkdownParser.get_result
get_result(markdown_text) ==
    [done |-> TRUE,
     code |-> get_code_block(markdown_text),
     language |-> get_language(markdown_text)]

NotParsed == [done |-> FALSE, code |-> <<>>, language |-> <<>>]

MdIdle == markdown = <<>> /\ parsed = NotParsed

(***************************************************************************)
(* Chat elements (chat_elements.py).  A widget is a record whose field     *)
(* `widget` names its class; the text a widget holds is a sequence of      *)
(* characters, as markdown text is.                                        *)
(***************************************************************************)
\* the characters of a string
Chars(str) == [i \in 1..Len(str) |-> SubSeq(str, i, i)]

\* seq[n:]
Drop(seq, n) == SubSeq(seq, n + 1, Len(seq))

Python == Chars("python")

RECURSIVE SplitOnFence(_)
\* text.split(three backticks): the pieces between the fences, found from the
\* left and not overlapping
SplitOnFence(s) ==
    IF ~Contains(s, Fence) THEN <<s>>
    ELSE LET i == Least({k \in 1..Len(s) : StartsAt(s, k, Fence)}) IN
         <<SubSeq(s, 1, i - 1)>> \o SplitOnFence(SubSeq(s, i + 3, Len(s)))

StaticText(value) == [widget |-> "StaticText", value |-> value]
CodeEditor(value, language) == [widget |-> "CodeEditor", value |-> value, language |-> language]
Button(name) == [widget |-> "Button", name |-> name, disabled |-> FALSE]
TextInput(value) == [widget |-> "TextInput", value |-> value]
Divider == [widget |-> "Divider"]
JSON(object) == [widget |-> "JSON", object |-> object]
Alert(object) == [widget |-> "Alert", object |-> object, alert_type |-> "danger"]

\* an entry of a block's objects list that is the block's own code_widget or
\* run_button: the list and the attribute hold the same object
Ref(name) == [widget |-> "ref", name |-> name]
Deref(owner, element) == IF element.widget = "ref" THEN owner[element.name] ELSE element

\* PythonObjDescription.__init__: the object with an empty description
PythonObjDescription(object) ==
    [widget |-> "PythonObjDescription", object |-> object,
     description |-> TextInput(<<>>),
     hide_button |-> Button("Hide"),
     is_hidden |-> FALSE,
     objects |-> <<Ref("hide_button"), Ref("object"), Ref("description")>>]

\* PythonObjDescription.toggle_visibility(event): the handler of the Hide
\* button
toggle_visibility(self) ==
    IF self.is_hidden
        THEN [self EXCEPT !.objects = <<Ref("hide_button"), Ref("object"), Ref("description")>>,
                          !.hide_button.name = "Hide",
                          !.is_hidden = FALSE]
        ELSE [self EXCEPT !.objects = <<Ref("hide_button"), Ref("description")>>,
                          !.hide_button.name = "Unhide",
                          !.is_hidden = TRUE]

\* PythonObjDescription.set_description
set_description(self, description) == [self EXCEPT !.description.value = description]

\* PythonCodeBlock.__init__: the editor and the Run button are the first two
\* objects; outputs start at index 2
PythonCodeBlock(code_, run_time) ==
    [widget |-> "PythonCodeBlock",
     run_time |-> run_time,
     code_widget |-> CodeEditor(code_, Python),
     run_button |-> Button("Run"),
     objects |-> <<Ref("code_widget"), Ref("run_button")>>,
     output_start_index |-> 2]

\* TextCodeRow._get_code_widget
_get_code_widget(code_, language, run_time) ==
    IF language = Python THEN PythonCodeBlock(code_, run_time)
    ELSE CodeEditor(code_, language)

\* list.insert(index, element), index counted from 0
Insert(list, index, element) ==
    SubSeq(list, 1, index) \o <<element>> \o SubSeq(list, index + 1, Len(list))

RECURSIVE RowWidgets_skip_blank_code(_, _, _)
\* the loop of TextCodeRow.__init__ changed to skip a code block that is empty
RowWidgets_skip_blank_code(blocks, i, run_time) ==
    IF i >= Len(blocks) THEN <<>>
    ELSE LET block == blocks[i + 1]
             fenced == Fence \o block \o Fence
         IN  (IF Strip(block) = <<>> THEN <<>>
              ELSE IF i % 2 = 0 THEN <<StaticText(Strip(block))>>
              ELSE <<_get_code_widget(get_code_block(fenced), get_language(fenced), run_time)>>)
             \o RowWidgets_skip_blank_code(blocks, i + 1, run_time)

RECURSIVE RowWidgets(_, _, _)
\* the first loop of TextCodeRow.__init__, from block i (counted from 0) on:
\* even blocks are prose and kept when not blank, odd blocks are code
RowWidgets(blocks, i, run_time) ==
    IF i >= Len(blocks) THEN <<>>
    ELSE LET block == blocks[i + 1]
             fenced == Fence \o block \o Fence
         IN  (IF i % 2 = 0
                  THEN (IF Strip(block) /= <<>> THEN <<StaticText(Strip(block))>> ELSE <<>>)
                  ELSE <<_get_code_widget(get_code_block(fenced), get_language(fenced), run_time)>>)
             \o RowWidgets(blocks, i + 1, run_time)

RECURSIVE InsertDividers(_, _, _)
\* the second loop of TextCodeRow.__init__: for i in range(n - 1), with n the
\* number of objects before the loop
InsertDividers(objects, i, n) ==
    IF i >= n - 1 THEN objects
    ELSE InsertDividers(Insert(objects, i * 2 + 1, Divider), i + 1, n)

\* TextCodeRow.__init__
TextCodeRow(text_, run_time) ==
    LET widgets == RowWidgets(SplitOnFence(text_), 0, run_time) IN
    [widget |-> "TextCodeRow",
     run_time |-> run_time,
     objects |-> InsertDividers(widgets, 0, Len(widgets))]

\* f-string of a fenced block: fence, language, line break, code, line break,
\* fence
MarkdownCode(element) ==
    Fence \o element.language \o <<"\n">> \o element.value \o <<"\n">> \o Fence

\* what get_information returns or raises
Information(text_) == [done |-> TRUE, exc |-> "", text |-> text_]
InformationFails(exc) == [done |-> TRUE, exc |-> exc, text |-> <<>>]
NoInformation == [done |-> FALSE, exc |-> "", text |-> <<>>]

\* PythonObjDescription.get_information
ObjDescriptionInformation(self) ==
    Chars("Generate figure of type: <class '" \o self.object.type \o "'>")
    \o (IF self.description.value /= <<>>
            THEN Chars("\nUser description: ") \o self.description.value
            ELSE <<>>)

RECURSIVE BlockInformation(_, _, _)
\* the loop of PythonCodeBlock.get_information from the i-th object on, acc
\* being the information so far; adding the object of a JSON pane, a dict or
\* a list, to a str is a TypeError
BlockInformation(self, i, acc) ==
    IF i > Len(self.objects) THEN Information(Drop(acc, 1))
    ELSE LET element == Deref(self, self.objects[i]) IN
         IF element.widget = "StaticText"
             THEN BlockInformation(self, i + 1, acc \o <<"\n">> \o element.value)
         ELSE IF element.widget = "Alert"
             THEN BlockInformation(self, i + 1, acc \o <<"\n">> \o element.object)
         ELSE IF element.widget = "JSON"
             THEN InformationFails("TypeError")
         ELSE IF element.widget = "CodeEditor"
             THEN BlockInformation(self, i + 1, acc \o <<"\n">> \o MarkdownCode(element))
         ELSE IF element.widget = "TextInput"
             THEN BlockInformation(self, i + 1, acc \o Chars("\nUser input: ") \o element.value)
         ELSE IF element.widget = "PythonObjDescription"
             THEN BlockInformation(self, i + 1,
                                   acc \o <<"\n">> \o ObjDescriptionInformation(element))
         ELSE IF element.widget = "Button"
             THEN BlockInformation(self, i + 1, acc)
         ELSE BlockInformation(self, i + 1,
                               acc \o Chars("\nGenerated figure of type: <class '"
                                            \o element.widget \o "'>"))

RECURSIVE RowInformation(_, _, _)
\* the loop of TextCodeRow.get_information from the i-th object on; a Divider
\* is none of the three classes and adds nothing
RowInformation(self, i, acc) ==
    IF i > Len(self.objects) THEN Information(Drop(acc, 2))
    ELSE LET element == self.objects[i] IN
         IF element.widget = "StaticText"
             THEN RowInformation(self, i + 1, acc \o <<"\n", "\n">> \o element.value)
         ELSE IF element.widget = "CodeEditor"
             THEN RowInformation(self, i + 1, acc \o <<"\n", "\n">> \o MarkdownCode(element))
         ELSE IF element.widget = "PythonCodeBlock"
             THEN LET inner == BlockInformation(element, 1, <<>>) IN
                  IF inner.exc /= "" THEN inner
                  ELSE RowInformation(self, i + 1, acc \o <<"\n", "\n">> \o inner.text)
         ELSE RowInformation(self, i + 1, acc)

\* get_information of a chat element
get_information(self) ==
    IF self.widget = "TextCodeRow" THEN RowInformation(self, 1, <<>>)
    ELSE IF self.widget = "PythonCodeBlock" THEN BlockInformation(self, 1, <<>>)
    ELSE Information(ObjDescriptionInformation(self))

(***************************************************************************)
(* PythonCodeBlock.run.  The runtime of a block is any BaseCodeRunTime, so *)
(* what its run_code returns or raises is an input of run: an outcome      *)
(* record, the returned value being one Python value or a tuple of them.   *)
(***************************************************************************)
StrValue(repr) == [type |-> "str", name |-> "", val |-> repr]
DictValue(repr) == [type |-> "dict", name |-> "", val |-> repr]
ListValue(repr) == [type |-> "list", name |-> "", val |-> repr]
TupleValue(items) == [type |-> "tuple", name |-> "", val |-> "", items |-> items]

\* list.pop(index), index counted from 0: the list without that element
Pop(list, index) == SubSeq(list, 1, index) \o SubSeq(list, index + 2, Len(list))

RECURSIVE PopOutputs(_, _, _, _)
\* the loop that clears the outputs: i runs from the last index down to
\* start; the description of every PythonObjDescription popped is cached
\* under its index, in the order the loop meets them
PopOutputs(objects, i, start, cache) ==
    IF i < start THEN [objects |-> objects, cache |-> cache]
    ELSE LET old_widget == objects[i + 1] IN
         PopOutputs(Pop(objects, i), i - 1, start,
                    IF old_widget.widget = "PythonObjDescription"
                        THEN Append(cache, [index |-> i,
                                            description |-> old_widget.description.value])
                        ELSE cache)

\* the clearing loop changed to leave the first output in place
ClearOutputs_keep_first(self) ==
    PopOutputs(self.objects, Len(self.objects) - 1, self.output_start_index + 1, <<>>)

\* lines 223-228 of run: [objects left, description_cache]
ClearOutputs(self) ==
    PopOutputs(self.objects, Len(self.objects) - 1, self.output_start_index, <<>>)

\* the widget run appends for one output
OutputWidget(output) ==
    IF output.type = "str" THEN StaticText(Chars(output.val))
    ELSE IF output.type \in {"dict", "list"} THEN JSON(output)
    ELSE PythonObjDescription(output)

\* the try block of run: the outputs of run_code, one widget each, or the
\* Alert of the except branch
ShowOutputs(objects, result) ==
    IF result.status = "raised"
        THEN Append(objects, Alert(Chars(result.exc \o ": " \o result.msg)))
    ELSE LET outputs == IF result.value.type = "tuple"
                            THEN result.value.items
                            ELSE <<result.value>>
         IN  objects \o [k \in 1..Len(outputs) |-> OutputWidget(outputs[k])]

RECURSIVE ReattachFrom(_, _, _)
\* the last loop of run, from the k-th cached description on: objects[i] of
\* an index past the end of the list is an IndexError, which nothing catches
ReattachFrom(objects, cache, k) ==
    IF k > Len(cache) THEN [objects |-> objects, exc |-> ""]
    ELSE LET i == cache[k].index IN
         IF i >= Len(objects) THEN [objects |-> objects, exc |-> "IndexError"]
         ELSE IF objects[i + 1].widget = "PythonObjDescription"
             THEN ReattachFrom([objects EXCEPT ![i + 1] =
                                   set_description(objects[i + 1], cache[k].description)],
                               cache, k + 1)
         ELSE ReattachFrom(objects, cache, k + 1)

\* the last loop changed to give every cached description to the output one
\* place further on
Reattach_one_further(objects, cache) ==
    ReattachFrom(objects, [k \in 1..Len(cache) |->
                              [cache[k] EXCEPT !.index = IF cache[k].index + 1 < Len(objects)
                                                             THEN cache[k].index + 1
                                                             ELSE cache[k].index]], 1)

\* lines 249-252 of run
Reattach(objects, cache) == ReattachFrom(objects, cache, 1)

\* run changed to go on without the check of run_time: calling run_code on
\* None is an AttributeError, which the except branch shows
run_without_runtime_check(self, result) ==
    LET cleared == ClearOutputs(self)
        shown == ShowOutputs(cleared.objects,
                             IF self.run_time = None
                                 THEN Raised("AttributeError",
                                             "'NoneType' object has no attribute 'run_code'")
                                 ELSE result)
        done == Reattach(shown, cleared.cache)
    IN  [block |-> [self EXCEPT !.objects = done.objects],
         called |-> self.run_time /= None, exc |-> done.exc]

\* PythonCodeBlock.run(event), result being what run_code returns or raises
\* when run gets to call it: [the block afterwards, whether run_code was
\* called, the exception run ends with or ""]
run(self, result) ==
    IF self.run_time = None
        THEN [block |-> [self EXCEPT !.run_button.disabled = TRUE,
                                     !.run_button.name = "No Run Time"],
              called |-> FALSE, exc |-> ""]
    ELSE LET cleared == ClearOutputs(self)
             shown == ShowOutputs(cleared.objects, result)
             done == Reattach(shown, cleared.cache)
         IN  [block |-> [self EXCEPT !.objects = done.objects],
              called |-> TRUE, exc |-> done.exc]

NoBlock == [widget |-> "none"]

BlockIdle == code_block = NoBlock /\ clicks = 0 /\ run_exc = "" /\ event = "none"

(***************************************************************************)
(* LLMConversation and StreamHandler (llm_chat copy.py).  A message of the *)
(* chat box is a dict of one key, the user's name, and its content: a      *)
(* str, a TextCodeRow, the loading spinner, or the list of one str that    *)
(* the stream handler writes.  Every assignment to chat_box.value is a     *)
(* change of the value parameter, and _chat, an async watcher of it, is    *)
(* scheduled on the event loop with the event of the change.               *)
(***************************************************************************)
Message(user, content) == [user |-> user, content |-> content]
StrContent(value) == [widget |-> "str", value |-> value]
ListContent(value) == [widget |-> "list", value |-> value]
Spinner == [widget |-> "LoadingSpinner"]

\* a row built in the conversation is one object: the messages of the chat
\* box, the saved history and the events of the watcher calls hold the same
\* row, which id tells from an equal row built at another time
Identified(as_row, id) == [id |-> id] @@ as_row

\* bool(content), as row.get(name, False) is tested: a str is true when not
\* empty, a list of one element is true, a Column is true when it has objects
IsTrue(content) ==
    IF content.widget = "str" THEN content.value /= <<>>
    ELSE IF content.widget = "TextCodeRow" THEN Len(content.objects) > 0
    ELSE TRUE

\* the state a coroutine of _chat works on: the conversation object and the
\* watcher calls its assignments have scheduled
\* chat_box.value = value, seen by the watcher
SetValue(st, value) ==
    [st EXCEPT !.self.chat_box.value = value,
               !.scheduled = Append(@, [call |-> "_chat", new |-> value, id |-> 0])]

\* ChatBox.append(message)
ChatBoxAppend(st, message) == SetValue(st, Append(st.self.chat_box.value, message))

\* ChatBox.replace(index, message); a negative index counts from the end
ChatBoxReplace(st, index, message) ==
    LET value == st.self.chat_box.value
        i == IF index < 0 THEN index + Len(value) ELSE index
    IN  SetValue(st, [value EXCEPT ![i + 1] = message])

\* StreamHandler.__init__(container): the text starts empty
StreamHandler == [text |-> <<>>]

\* on_llm_new_token changed to put the new token in front of the text
on_llm_new_token_in_front(handler, st, token) ==
    LET text == token \o handler.text IN
    [handler |-> [handler EXCEPT !.text = text],
     st |-> ChatBoxReplace(st, -1, Message("AI", ListContent(text)))]

\* StreamHandler.on_llm_new_token(token): [the handler, the state] afterwards
on_llm_new_token(handler, st, token) ==
    LET text == handler.text \o token IN
    [handler |-> [handler EXCEPT !.text = text],
     st |-> ChatBoxReplace(st, -1, Message("AI", ListContent(text)))]

RECURSIVE MemoryFrom(_, _, _)
\* the loop of update_memory from the i-th row on: a row whose content is
\* true is asked for get_information(), which a str, a list and the spinner
\* do not have
MemoryFrom(value, i, history) ==
    IF i > Len(value) THEN [exc |-> "", history |-> history]
    ELSE LET message == value[i] IN
         IF ~IsTrue(message.content) THEN MemoryFrom(value, i + 1, history)
         ELSE IF message.content.widget /= "TextCodeRow"
             THEN [exc |-> "AttributeError", history |-> history]
         ELSE LET info == get_information(message.content) IN
              IF info.exc /= "" THEN [exc |-> info.exc, history |-> history]
              ELSE MemoryFrom(value, i + 1,
                              Append(history,
                                     [role |-> IF message.user = "You" THEN "human" ELSE "ai",
                                      content |-> info.text]))

\* LLMConversation.update_memory: [exc, state]
update_memory(st) ==
    IF Len(st.self.chat_box.value) = 0 THEN [exc |-> "", st |-> st]
    ELSE LET built == MemoryFrom(st.self.chat_box.value, 1, <<>>) IN
         IF built.exc /= "" THEN [exc |-> built.exc, st |-> st]
         ELSE [exc |-> "", st |-> [st EXCEPT !.self.memory = built.history]]

\* LLMConversation._hide_history
_hide_history(st) ==
    IF ~st.self._hidden_history
        THEN LET chat_history == st.self.chat_box.value
                 shown == SetValue([st EXCEPT !.self.chat_history = chat_history],
                                   SubSeq(chat_history,
                                          IF Len(chat_history) > 2
                                              THEN Len(chat_history) - 1 ELSE 1,
                                          Len(chat_history)))
             IN  [shown EXCEPT !.self._hidden_history = TRUE]
        ELSE st

\* LLMConversation._show_history
_show_history(st) ==
    IF Len(st.self.chat_box.value) < 2 THEN st
    ELSE IF st.self._hidden_history
        THEN LET value == st.self.chat_box.value
                 chat_history == st.self.chat_history
                 shown == SetValue(st, SubSeq(chat_history, 1, Len(chat_history) - 1)
                                       \o SubSeq(value, Len(value), Len(value)))
             IN  [shown EXCEPT !.self._hidden_history = FALSE]
    ELSE st

\* LLMConversation._code_row_callback: [exc, state]; the spinner cannot be
\* indexed, and the first element of a row is one of its widgets
_code_row_callback(st) ==
    LET value == st.self.chat_box.value
        last_message == value[Len(value)]
    IN  IF last_message.user /= "AI" \/ ~IsTrue(last_message.content)
            THEN [exc |-> "", st |-> st]
        ELSE IF last_message.content.widget = "LoadingSpinner"
            THEN [exc |-> "TypeError", st |-> st]
        ELSE IF last_message.content.widget /= "list"
            THEN [exc |-> "", st |-> st]
        ELSE [exc |-> "",
              st |-> ChatBoxReplace([st EXCEPT !.rows = @ + 1], Len(value) - 1,
                                    Message("AI", Identified(TextCodeRow(last_message.content.value,
                                                                         st.self.run_time),
                                                             st.rows + 1)))]

\* lines 128-140 of _chat, up to the await of the model call: how the
\* coroutine gets there ("awaiting"), or ends before ("returned", "raised")
ChatToAwait(st, event_) ==
    LET user_message == event_.new[Len(event_.new)] IN
    IF user_message.user /= "You"
        THEN [status |-> "returned", exc |-> "", st |-> st]
    ELSE IF user_message.content.widget /= "str"
        \* user_row_to_TextCodeRow: TextCodeRow(text) calls text.split
        THEN [status |-> "raised", exc |-> "AttributeError", st |-> st]
    ELSE LET as_row == ChatBoxReplace([st EXCEPT !.rows = @ + 1],
                                      Len(st.self.chat_box.value) - 1,
                                      Message("You", Identified(TextCodeRow(user_message.content.value,
                                                                            None),
                                                                st.rows + 1)))
             remembered == update_memory(as_row)
         IN  IF remembered.exc /= ""
                 THEN [status |-> "raised", exc |-> remembered.exc, st |-> remembered.st]
             ELSE [status |-> "awaiting", exc |-> "",
                   st |-> _hide_history(ChatBoxAppend(remembered.st, Message("AI", Spinner)))]

\* the end of ConversationChain.apredict(input=input) at line 140: when the
\* model call has returned, the chain saves the input and the reply to its
\* memory before _chat goes on
save_context(st, input, reply) ==
    [st EXCEPT !.self.memory = @ \o <<[role |-> "human", content |-> input],
                                       [role |-> "ai", content |-> reply]>>]

\* lines 142-146 of _chat, after the model call has returned: [exc, state]
ChatAfterAwait(st) ==
    LET called == _code_row_callback(st) IN
    IF called.exc /= "" THEN called
    ELSE [exc |-> "", st |-> _show_history(called.st)]

RECURSIVE RunTimeLoop(_, _)
\* the loop of set_run_time from the i-th message on: the first element of
\* an AI content that is true is taken; the spinner cannot be indexed, the
\* first element of a row is one of its widgets and that of the streamed
\* list a str, neither of them a TextCodeRow
RunTimeLoop(value, i) ==
    IF i > Len(value) THEN ""
    ELSE IF value[i].user = "AI" /\ IsTrue(value[i].content)
                                 /\ value[i].content.widget = "LoadingSpinner"
        THEN "TypeError"
    ELSE RunTimeLoop(value, i + 1)

\* LLMConversation.set_run_time(run_time): [the conversation afterwards, the
\* exception it ends with or ""]
set_run_time(self, run_time) ==
    [self |-> [self EXCEPT !.run_time = run_time],
     exc |-> RunTimeLoop(self.chat_box.value, 1)]

\* the decorator changed to enable the inputs only after a normal return
_disable_inputs_without_finally(self, status) ==
    [self EXCEPT !.chat_box.disabled = (status /= "returned")]

\* LLMConversation._disable_inputs, the inner coroutine around a call of
\* _chat that is now "awaiting", or has "returned" or "raised": the inputs
\* are disabled before the call, and enabled in the finally when it ends
_disable_inputs(self, status) ==
    [self EXCEPT !.chat_box.disabled = (status = "awaiting")]

\* LLMConversation.__init__
LLMConversation(run_time) ==
    [run_time |-> run_time,
     chat_box |-> [value |-> <<>>, disabled |-> FALSE],
     _hidden_history |-> FALSE,
     chat_history |-> <<>>,
     memory |-> <<>>]

NoConversation == [run_time |-> None]

NoLoop == [scheduled |-> <<>>, awaiting |-> <<>>, streamed |-> 0, invoked |-> 0, rows |-> 0]

ChatIdle == conversation = NoConversation /\ loop = NoLoop /\ turns = 0

NoRow == [widget |-> "none", run_time |-> None, objects |-> <<>>]

RowIdle == row_text = <<>> /\ row = NoRow /\ information = NoInformation

(***************************************************************************)
(* The runtime as a state machine: construction, then run_code calls       *)
(***************************************************************************)
\* every block of at most n lines over a set of lines
Blocks(lines, n) == UNION {[1..k -> lines] : k \in 0..n}

CodeLines ==
    {"x = 2", "import os", "def f(x): return x", "def g(x): return x",
     "def f(x): raise ValueError('bad')", "raise RuntimeError('boom')", "def f(:"}

Codes == Blocks(CodeLines, MaxCodeLines)

\* the validators a runtime is constructed with
RuntimeValidators ==
    {None, PythonValidator(TRUE, TRUE, TRUE, TRUE), PythonValidator(FALSE, TRUE, TRUE, TRUE)}

\* PythonCodeRunTime.__init__: exec the imports into an empty namespace, then
\* bind every seeded variable
SeedNamespace(imps, vs) == vs @@ Exec(imps, <<>>).ns

Self == [validator |-> validator, variables |-> variables, namespace |-> namespace]


Init ==
    /\ imports = <<"import os">>
    /\ validator \in RuntimeValidators
    /\ variables = [x |-> IntValue("4")]
    /\ namespace = SeedNamespace(imports, variables)
    /\ code = <<>>
    /\ pre = namespace
    /\ outcome = NoCall
    /\ MdIdle
    /\ RowIdle
    /\ BlockIdle
    /\ ChatIdle

\* one run_code(code) call, to its return or its exception
RunCode(c) ==
    \E r \in {run_code(Self, c)} :
    /\ code' = c
    /\ pre' = namespace
    /\ namespace' = r.ns
    /\ outcome' = r.outcome
    /\ UNCHANGED <<imports, validator, variables, mdvars, rowvars, blockvars, chatvars>>

Next == \E c \in Codes : RunCode(c)

Spec == Init /\ [][Next]_vars

(***************************************************************************)
(* Vocabulary of the runtime claims                                        *)
(***************************************************************************)
Called == outcome.status /= "none"
Attached == Truthy(validator)

\* the statements that bind a name
Binds(line) == Stmt(line).op \in {"assign", "import", "importfrom", "def"}

\* index of the first raise statement of a block, Len + 1 without one
FirstRaise(lines) ==
    LET at == {i \in 1..Len(lines) : Stmt(lines[i]).op = "raise"} IN
    IF at = {} THEN Len(lines) + 1 ELSE CHOOSE i \in at : \A j \in at : i <= j

\* the names the statements before position `stop` bind
BoundBefore(lines, stop) ==
    {Stmt(lines[i]).name : i \in {j \in 1..(stop - 1) : Binds(lines[j])}}

\* the value the last statement before `stop` that binds n gives it
LastBound(lines, stop, n) ==
    LET at == {i \in 1..(stop - 1) : Binds(lines[i]) /\ Stmt(lines[i]).name = n} IN
    Stmt(lines[CHOOSE i \in at : \A j \in at : j <= i]).value

\* the namespace `before` with the bindings of the statements before `stop`
WithBindings(before, lines, stop) ==
    [n \in DOMAIN before \cup BoundBefore(lines, stop) |->
        IF n \in BoundBefore(lines, stop) THEN LastBound(lines, stop, n) ELSE before[n]]

\* a code block that compiles, runs to its end and leaves function_name bound
\* to a function that returns its argument x
DefinesReturningFunction(lines, before) ==
    /\ ~ParseFails(lines)
    /\ FirstRaise(lines) > Len(lines)
    /\ function_name \in DOMAIN WithBindings(before, lines, Len(lines) + 1)
    /\ WithBindings(before, lines, Len(lines) + 1)[function_name].val = "return x"

\* some enabled check of validator v matches the block
EnabledCheckMatches(v, lines) ==
    \/ v.check_imports /\ HasImportNode(lines)
    \/ v.check_links /\ LinkRegexMatches(JoinLines(lines))
    \/ v.check_save_funcs /\ HasSaveFunc(JoinLines(lines))
    \/ v.check_exec_eval /\ HasExecEval(JoinLines(lines))

\* C1: with a validator attached, code that passes every enabled check and
\* defines the function is executed and the function's result is returned.
C1_PassingCodeIsRun ==
    (/\ Called
     /\ Attached
     /\ ~EnabledCheckMatches(validator, code)
     /\ DefinesReturningFunction(code, pre))
    => /\ outcome.status = "returned"
       /\ outcome.value = variables["x"]
       /\ namespace = WithBindings(pre, code, Len(code) + 1)

\* C2: code that runs to its end and defines a function only under another
\* name than function_name raises a lookup failure and invokes nothing
\* (stated for runtimes without a validator).
C2_WrongNameIsLookupFailure ==
    (/\ Called
     /\ ~Attached
     /\ ~ParseFails(code)
     /\ FirstRaise(code) > Len(code)
     /\ \E i \in 1..Len(code) : Stmt(code[i]).op = "def"
     /\ \A i \in 1..Len(code) :
            Stmt(code[i]).op = "def" => Stmt(code[i]).name /= function_name)
    => /\ outcome.status = "raised"
       /\ outcome.exc = "KeyError"
       /\ ~outcome.invoked

\* C3: when the attached validator rejects the code, run_code raises the
\* validator's rejection, the namespace is what it was before the call and no
\* function is invoked.
C3_RejectionRunsNothing ==
    (/\ Called
     /\ Attached
     /\ validate(validator, code).exc = "PythonValidatorError")
    => /\ outcome = validate(validator, code)
       /\ namespace = pre
       /\ ~outcome.invoked

C3_Witness ==
    /\ Called
    /\ Attached
    /\ outcome.exc = "PythonValidatorError"
    /\ code = <<"x = 2", "import os">>
    /\ namespace["x"] = IntValue("4")

\* C4: without a validator, run_code executes the code in the namespace,
\* takes what function_name is bound to afterwards, calls it with the seeded
\* variables (not with the namespace's current bindings of those names) and
\* returns the function's return value.
C4_CallsWithSeededVariables ==
    (Called /\ ~Attached)
    => /\ DefinesReturningFunction(code, pre)
          => /\ outcome = Returned(variables["x"], TRUE)
             /\ namespace = WithBindings(pre, code, Len(code) + 1)
       /\ outcome.status = "returned"
          => /\ outcome.invoked
             /\ namespace[function_name].val = "return x"
             /\ outcome.value = variables["x"]

C4_Witness ==
    /\ Called
    /\ ~Attached
    /\ outcome.status = "returned"
    /\ "x = 2" \in {code[i] : i \in 1..Len(code)}
    /\ namespace["x"] = IntValue("2")
    /\ outcome.value = IntValue("4")

\* C5: the namespace is never reset: across a run_code call every bound name
\* stays bound, and keeps its value unless the code of that call binds it.
C5_NamespacePersists ==
    [][\A n \in DOMAIN namespace :
          /\ n \in DOMAIN namespace'
          /\ namespace'[n] /= namespace[n] => n \in BoundBefore(code', Len(code') + 1)]_vars

\* a later call runs a function that only an earlier call defined, next to a
\* name g bound by an earlier call as well
C5_Witness ==
    /\ Called
    /\ "g" \in DOMAIN pre
    /\ function_name \in DOMAIN pre
    /\ BoundBefore(code, Len(code) + 1) = {"x"}
    /\ namespace["g"] = pre["g"]
    /\ outcome.status = "returned"

\* C6: a call that fails after its code started executing keeps every binding
\* the code made before the failure.
C6_NoRollback ==
    (/\ Called
     /\ outcome.status = "raised"
     /\ ~Attached
     /\ ~ParseFails(code))
    => namespace = WithBindings(pre, code, FirstRaise(code))

\* the code raised midway after binding x
C6_WitnessRaise ==
    /\ Called
    /\ outcome.exc = "RuntimeError"
    /\ code = <<"x = 2", "raise RuntimeError('boom')">>
    /\ pre["x"] = IntValue("4")
    /\ namespace["x"] = IntValue("2")

\* C7 as claimed: every failure of run_code has one and the same kind, so two
\* failing calls in a row never differ in the kind of exception.
C7_OneFailureKind ==
    [][(outcome.status = "raised" /\ outcome'.status = "raised")
          => outcome'.exc = outcome.exc]_vars

\* C7 as amended: each of the failures the claim names reaches the caller as
\* the exception raised by the step that failed, with that step's message: a
\* rejection by the validator as PythonValidatorError with the message of the
\* check that matched, a syntax error of the code as SyntaxError, an
\* exception raised while the code or the function runs as that exception,
\* and a function name that is not bound as KeyError naming it.
C7_FailureKindFollowsCause ==
    (Called /\ outcome.status = "raised")
    => /\ (Attached /\ validator.check_imports /\ ParseFails(code))
          => outcome.exc = "SyntaxError" /\ outcome.msg = "invalid syntax"
       /\ (Attached /\ ~(validator.check_imports /\ ParseFails(code))
                    /\ EnabledCheckMatches(validator, code))
          => /\ outcome.exc = "PythonValidatorError"
             /\ outcome.msg \in {ImportsMsg, LinksMsg, SaveMsg, ExecEvalMsg}
       /\ ~Attached
          => IF ParseFails(code)
                 THEN outcome.exc = "SyntaxError" /\ outcome.msg = "invalid syntax"
             ELSE IF FirstRaise(code) <= Len(code)
                 THEN outcome.exc = "RuntimeError" /\ outcome.msg = "boom"
             ELSE IF function_name \notin DOMAIN namespace
                 THEN outcome.exc = "KeyError" /\ outcome.msg = "'f'"
             ELSE outcome.exc = "ValueError" /\ outcome.msg = "bad" /\ outcome.invoked

\* a validator rejection reaches the caller as PythonValidatorError, not as
\* the ValueError of a failed validation
C7_Witness ==
    /\ Called
    /\ Attached
    /\ code = <<"import os">>
    /\ outcome.exc = "PythonValidatorError"
    /\ outcome.msg = ImportsMsg

(***************************************************************************)
(* The validator on its own: a PythonValidator with any setting of its     *)
(* four flags, one validate(code) call                                     *)
(***************************************************************************)
ValidatedLines ==
    {"x = 1", "import os", "from os import path", "# import os",
     "u = 'http://a.b'", "u = 'https://a.b'", "w = 'www.a.b'", "# see http://",
     "reopen = 1", "# rewrite", "d.save()", "dumps = 2",
     "evaluate()", "executor = 1", "def f(:"}

ValidatedCodes == Blocks(ValidatedLines, MaxValidatedLines)

AllValidators ==
    {PythonValidator(i, l, s, e) : i \in BOOLEAN, l \in BOOLEAN, s \in BOOLEAN, e \in BOOLEAN}

InitValidator ==
    /\ validator \in AllValidators
    /\ code \in ValidatedCodes
    /\ outcome = NoCall
    /\ imports = <<>>
    /\ variables = <<>>
    /\ namespace = <<>>
    /\ pre = <<>>
    /\ MdIdle
    /\ RowIdle
    /\ BlockIdle
    /\ ChatIdle

\* one validator.validate(code) call, to its return or its exception
Validate ==
    /\ outcome.status = "none"
    /\ outcome' = validate(validator, code)
    /\ UNCHANGED <<imports, validator, variables, namespace, code, pre, mdvars, rowvars, blockvars, chatvars>>

NextValidator == Validate

SpecValidator == InitValidator /\ [][NextValidator]_vars

\* the patterns of the four checks, as the claim words them
ImportStatementIn(lines) ==
    \E i \in 1..Len(lines) : StartsAt(lines[i], 1, "import ") \/ StartsAt(lines[i], 1, "from ")
LinkIn(text) ==
    \E i \in 1..Len(text) : \E scheme \in {"http://", "https://", "www."} :
        StartsAt(text, i, scheme) /\ NonSpaceAt(text, i + Len(scheme))
SaveWordIn(text) == \E w \in {"open", "write", "save", "dump"} : Contains(text, w)
ExecEvalIn(text) == \E w \in {"exec", "eval"} : Contains(text, w)

EnabledPatternIn(v, lines) ==
    \/ v.check_imports /\ ImportStatementIn(lines)
    \/ v.check_links /\ LinkIn(JoinLines(lines))
    \/ v.check_save_funcs /\ SaveWordIn(JoinLines(lines))
    \/ v.check_exec_eval /\ ExecEvalIn(JoinLines(lines))

\* C8: on syntactically valid code validate raises PythonValidatorError
\* exactly when a check that is enabled matches (import statement, link, one
\* of open/write/save/dump, exec or eval); otherwise it returns.
C8_RejectsIffEnabledCheckMatches ==
    (outcome.status /= "none" /\ ~ParseFails(code))
    => /\ (outcome.status = "raised" /\ outcome.exc = "PythonValidatorError")
              <=> EnabledPatternIn(validator, code)
       /\ ~EnabledPatternIn(validator, code) => outcome = Returned(None, FALSE)

\* only the save check is on and the word is inside an identifier; the import
\* on the line before it is not looked at
C8_Witness ==
    /\ validator = PythonValidator(FALSE, FALSE, TRUE, FALSE)
    /\ code = <<"import os", "reopen = 1">>
    /\ outcome.status = "raised"
    /\ outcome.msg = SaveMsg

(***************************************************************************)
(* The parser on its own: any markdown text, one get_result call (which    *)
(* is get_code_block and get_language on the same text)                    *)
(***************************************************************************)
RECURSIVE Concat(_)
\* the tokens of a text written out as one character sequence
Concat(tokens) ==
    IF Len(tokens) = 0 THEN <<>> ELSE Head(tokens) \o Concat(Tail(tokens))

Tokens == {Fence, <<Tick>>, <<"a">>, <<"\n">>, <<" ">>}

Texts == {Concat(t) : t \in Blocks(Tokens, MaxTokens)}

InitParser ==
    /\ markdown \in Texts
    /\ parsed = NotParsed
    /\ imports = <<>>
    /\ validator = None
    /\ variables = <<>>
    /\ namespace = <<>>
    /\ code = <<>>
    /\ pre = <<>>
    /\ outcome = NoCall
    /\ RowIdle
    /\ BlockIdle
    /\ ChatIdle

GetResult ==
    /\ ~parsed.done
    /\ parsed' = get_result(markdown)
    /\ UNCHANGED <<markdown, rtvars, rowvars, blockvars, chatvars>>

NextParser == GetResult

SpecParser == InitParser /\ [][NextParser]_vars

\* the fenced span get_language took the language from: its opening fence,
\* and whether a fence closes it after the tag
LanguageFence == Least(LanguageMatches(markdown))
BodyStart == LanguageFence + 3 + Len(parsed.language)
ClosingFences == {k \in BodyStart..Len(markdown) : StartsAt(markdown, k, Fence)}

\* C9: the code of get_result is the trimmed body of the fenced block whose
\* opening fence carries the returned language.
C9_CodeAndLanguageFromOneSpan ==
    (/\ parsed.done
     /\ LanguageMatches(markdown) /= {}
     /\ ClosingFences /= {})
    => parsed.code = Strip(SubSeq(markdown, BodyStart, Least(ClosingFences) - 1))

\* a text that is one fenced block: fence, tag of word characters, line
\* break, body without a fence, fence
TagLen == WordRun(markdown, 4)
BlockTag == SubSeq(markdown, 4, 3 + TagLen)
BlockBody == SubSeq(markdown, 5 + TagLen, Len(markdown) - 3)
IsOneBlock ==
    /\ StartsAt(markdown, 1, Fence)
    /\ TagLen >= 1
    /\ Len(markdown) >= TagLen + 7
    /\ markdown[4 + TagLen] = "\n"
    /\ StartsAt(markdown, Len(markdown) - 2, Fence)
    /\ ~Contains(BlockBody, Fence)

\* C10 as claimed: for a text that is one fenced block, get_language is the
\* tag and get_code_block the trimmed body.
C10_OneBlockTagAndBody ==
    (parsed.done /\ IsOneBlock)
    => /\ parsed.language = BlockTag
       /\ parsed.code = Strip(BlockBody)

\* C10 as amended: the same, for a body that does not end with a backtick.
C10_OneBlockBodyNotEndingInTick ==
    (/\ parsed.done
     /\ IsOneBlock
     /\ (Len(BlockBody) > 0 => BlockBody[Len(BlockBody)] /= Tick))
    => /\ parsed.language = BlockTag
       /\ parsed.code = Strip(BlockBody)

\* a body with white space around it and backticks inside it
C10_Witness ==
    /\ parsed.done
    /\ markdown = Fence \o <<"a", "\n", " ", Tick, "a">> \o Fence
    /\ parsed.language = <<"a">>
    /\ parsed.code = <<Tick, "a">>

\* C11: for a text without a triple-backtick fence get_code_block returns the
\* empty string and get_language returns the empty string, whatever else the
\* text holds.
C11_NoFenceGivesEmpty ==
    (parsed.done /\ ~Contains(markdown, Fence))
    => /\ parsed.code = <<>>
       /\ parsed.language = <<>>

\* a text of single and double backticks, a tag-like word and a line break,
\* but no fence
C11_Witness ==
    /\ parsed.done
    /\ markdown = <<Tick, Tick, "a", "\n", "a", Tick, Tick>>
    /\ parsed.code = <<>>
    /\ parsed.language = <<>>

(***************************************************************************)
(* A chat row on its own: TextCodeRow(text, run_time) for any text, then   *)
(* get_information() on the row as built                                   *)
(***************************************************************************)
\* the abstract runtime a row or a block is given (run_time/__init__.py)
BaseCodeRunTime == [type |-> "BaseCodeRunTime"]

RowTokens == {Fence, <<Tick>>, <<"a">>, <<"\n">>, Python}

RowTexts == {Concat(t) : t \in Blocks(RowTokens, MaxRowTokens)}

InitRow ==
    /\ row_text \in RowTexts
    /\ row = NoRow
    /\ information = NoInformation
    /\ imports = <<>>
    /\ validator = None
    /\ variables = <<>>
    /\ namespace = <<>>
    /\ code = <<>>
    /\ pre = <<>>
    /\ outcome = NoCall
    /\ MdIdle
    /\ BlockIdle
    /\ ChatIdle

\* TextCodeRow(text, run_time)
BuildRow(run_time) ==
    /\ row.widget = "none"
    /\ row' = TextCodeRow(row_text, run_time)
    /\ UNCHANGED <<row_text, information, rtvars, mdvars, blockvars, chatvars>>

\* row.get_information()
GetInformation ==
    /\ row.widget /= "none"
    /\ ~information.done
    /\ information' = get_information(row)
    /\ UNCHANGED <<row_text, row, rtvars, mdvars, blockvars, chatvars>>

NextRow ==
    \/ \E run_time \in {None, BaseCodeRunTime} : BuildRow(run_time)
    \/ GetInformation

SpecRow == InitRow /\ [][NextRow]_vars

\* the segments of the row's text, counted from 0, and the ones that get a
\* widget: every odd one, and every even one that is not blank
Segments == SplitOnFence(row_text)
Segment(i) == Segments[i + 1]
HasWidget(i) == i % 2 = 1 \/ Strip(Segment(i)) /= <<>>
WidgetIndex(i) == Cardinality({j \in 0..i : HasWidget(j)})

\* the row's widgets without the dividers between them
RowContent == SelectSeq(row.objects, LAMBDA w : w.widget /= "Divider")

\* C12: a built row holds, in text order, one code widget for every odd
\* segment of the text split on the fence (empty or unclosed ones too) and
\* one prose widget for every even segment that is not blank, and nothing
\* else; the code widget is a runnable Python block exactly when the language
\* extracted from the segment is python.
C12_OneWidgetPerSegment ==
    row.widget /= "none"
    => /\ Len(RowContent) = Cardinality({i \in 0..(Len(Segments) - 1) : HasWidget(i)})
       /\ \A i \in 0..(Len(Segments) - 1) :
            HasWidget(i) =>
              LET w == RowContent[WidgetIndex(i)] IN
              IF i % 2 = 0
                  THEN w.widget = "StaticText"
                  ELSE /\ w.widget \in {"CodeEditor", "PythonCodeBlock"}
                       /\ w.widget = "PythonCodeBlock"
                            <=> get_language(Fence \o Segment(i) \o Fence) = Python

\* blank prose before and between the fences, a python block with no code,
\* and a last code segment that is empty and never closed
C12_Witness ==
    /\ row_text = Fence \o Python \o <<"\n">> \o Fence \o <<"\n">> \o Fence
    /\ row.widget = "TextCodeRow"
    /\ Len(row.objects) = 3
    /\ row.objects[1].widget = "PythonCodeBlock"
    /\ row.objects[2] = Divider
    /\ row.objects[3] = CodeEditor(<<>>, <<>>)

\* the language tag of a code segment: the word, if any, that is all of its
\* opening fence line; and its code: what follows the tag, trimmed
SegmentTag(segment) ==
    LET n == WordRun(segment, 1) IN
    IF n >= 1 /\ n < Len(segment) /\ segment[n + 1] = "\n"
        THEN SubSeq(segment, 1, n)
        ELSE <<>>
SegmentCode(segment) == Strip(Drop(segment, Len(SegmentTag(segment))))

RECURSIVE ItemsFrom(_, _)
\* a text as its prose and code items in order: prose trimmed and left out
\* when blank, code as language tag and trimmed code
ItemsFrom(segments, i) ==
    IF i >= Len(segments) THEN <<>>
    ELSE (IF i % 2 = 1
              THEN <<[item |-> "code", language |-> SegmentTag(segments[i + 1]),
                      text |-> SegmentCode(segments[i + 1])]>>
          ELSE IF Strip(segments[i + 1]) /= <<>>
              THEN <<[item |-> "prose", language |-> <<>>,
                      text |-> Strip(segments[i + 1])]>>
          ELSE <<>>)
         \o ItemsFrom(segments, i + 1)

Items(text_) == ItemsFrom(SplitOnFence(text_), 0)

\* every fence that opens a code segment is closed
Balanced(text_) == Len(SplitOnFence(text_)) % 2 = 1

\* C13: for a text with balanced fences, get_information of the row built
\* from it is the text again up to the trimming of white space: the same
\* prose segments and the same fenced code blocks, each with its language tag
\* and code, in the same order.
C13_RoundTrip ==
    (information.done /\ Balanced(row_text))
    => /\ information.exc = ""
       /\ Items(information.text) = Items(row_text)

(***************************************************************************)
(* A Python code block on its own: built with or without a runtime, then   *)
(* Run clicks, with the user typing descriptions and editing the code in    *)
(* between                                                                 *)
(***************************************************************************)
\* one value of each kind run tells apart: str, dict, list, anything else
OutputValues == {StrValue("hi"), DictValue("{'k': 1}"), ListValue("[1]"), IntValue("4")}

\* what run_code may return or raise: one value, a tuple of values, an
\* exception
RunResults ==
    {Returned(v, TRUE) : v \in OutputValues}
    \cup {Returned(TupleValue(t), TRUE) : t \in Blocks(OutputValues, MaxOutputs)}
    \cup {Raised("ValueError", "bad"), Raised("KeyError", "'f'")}

Descriptions == {<<>>, <<"n">>, <<"m">>}

EditorCodes == {<<"a">>, <<"b">>}

InitBlock ==
    /\ code_block \in {PythonCodeBlock(<<"a">>, rt) : rt \in {None, BaseCodeRunTime}}
    /\ clicks = 0
    /\ run_exc = ""
    /\ event = "none"
    /\ imports = <<>>
    /\ validator = None
    /\ variables = <<>>
    /\ namespace = <<>>
    /\ code = <<>>
    /\ pre = <<>>
    /\ outcome = NoCall
    /\ MdIdle
    /\ RowIdle
    /\ ChatIdle

\* a click on the Run button: run(event) to its end, run_code returning or
\* raising result if run calls it
ClickRun(result) ==
    /\ clicks < MaxClicks
    /\ \E r \in {run(code_block, result)} :
        /\ code_block' = r.block
        /\ run_exc' = r.exc
        /\ code' = IF r.called THEN code_block.code_widget.value ELSE code
        /\ outcome' = IF r.called THEN result ELSE outcome
    /\ clicks' = clicks + 1
    /\ event' = "click"
    /\ UNCHANGED <<imports, validator, variables, namespace, pre, mdvars, rowvars, chatvars>>

\* the user types a description into the TextInput of the i-th object
TypeDescription(i, description) ==
    /\ code_block.objects[i].widget = "PythonObjDescription"
    /\ code_block.objects[i].description.value /= description
    /\ code_block' = [code_block EXCEPT !.objects[i].description.value = description]
    /\ event' = "input"
    /\ UNCHANGED <<clicks, run_exc, rtvars, mdvars, rowvars, chatvars>>

\* a click on the Hide button of the i-th object, an output shown as a
\* PythonObjDescription
ClickHide(i) ==
    /\ code_block.objects[i].widget = "PythonObjDescription"
    /\ code_block' = [code_block EXCEPT !.objects[i] = toggle_visibility(@)]
    /\ event' = "hide"
    /\ UNCHANGED <<clicks, run_exc, rtvars, mdvars, rowvars, chatvars>>

\* the user edits the code in the editor
EditCode(value) ==
    /\ code_block.code_widget.value /= value
    /\ code_block' = [code_block EXCEPT !.code_widget.value = value]
    /\ event' = "input"
    /\ UNCHANGED <<clicks, run_exc, rtvars, mdvars, rowvars, chatvars>>

NextBlock ==
    \/ \E result \in RunResults : ClickRun(result)
    \/ \E i \in 1..Len(code_block.objects) : \E d \in Descriptions : TypeDescription(i, d)
    \/ \E i \in 1..Len(code_block.objects) : ClickHide(i)
    \/ \E value \in EditorCodes : EditCode(value)

SpecBlock == InitBlock /\ [][NextBlock]_vars

\* C14 as claimed: on a block with a runtime, no Run click ends with an
\* exception leaving run, whatever run_code returned or raised.
C14_RunNeverRaises == run_exc = ""

\* a step that is a Run click on a block with a runtime
RunWithRuntime == clicks' = clicks + 1 /\ code_block.run_time /= None

\* the values of the latest run_code call, a result that is no tuple being
\* one value
Values(result) ==
    IF result.value.type = "tuple" THEN result.value.items ELSE <<result.value>>

\* the widget the claim names for a value, up to the description it carries
ShowsValue(w, v) ==
    IF v.type = "str" THEN w = StaticText(Chars(v.val))
    ELSE IF v.type \in {"dict", "list"} THEN w = JSON(v)
    ELSE w.widget = "PythonObjDescription" /\ w.object = v

\* C15: after a Run on a block with a runtime the first two objects are
\* still the code editor and the Run button, run_code was called with the
\* editor's contents, and the objects after them are the outputs of this run
\* alone: one widget per returned value in order (text for a str, a JSON view
\* for a dict or list, an annotated object otherwise), or one Alert with the
\* exception's type and message.
C15_OutputsAreThisRun ==
    [][RunWithRuntime =>
        LET outs == Drop(code_block'.objects, 2) IN
        /\ Len(code_block'.objects) >= 2
        /\ code_block'.objects[1] = Ref("code_widget")
        /\ code_block'.objects[2] = Ref("run_button")
        /\ code_block'.code_widget = code_block.code_widget
        /\ code_block'.code_widget.widget = "CodeEditor"
        /\ code_block'.run_button = Button("Run")
        /\ code' = code_block.code_widget.value
        /\ outcome'.status \in {"raised", "returned"}
        /\ outcome'.status = "raised"
             => outs = <<Alert(Chars(outcome'.exc \o ": " \o outcome'.msg))>>
        /\ outcome'.status = "returned"
             => /\ Len(outs) = Len(Values(outcome'))
                /\ \A k \in 1..Len(outs) : ShowsValue(outs[k], Values(outcome')[k])
    ]_vars

\* a second Run that raised after a Run with two outputs: the Alert is the
\* only output left
C15_Witness ==
    /\ clicks >= 2
    /\ event = "click"
    /\ run_exc = "IndexError"
    /\ outcome = Raised("ValueError", "bad")
    /\ Drop(code_block.objects, 2) = <<Alert(Chars("ValueError: bad"))>>

\* C16: when a Run leaves outputs of the same number and kinds as it found,
\* every annotated object keeps the description it had, at its position; and
\* after any Run a description that is not empty is the one the annotated
\* object at that position had before, and no other kind of output carries a
\* description.
C16_DescriptionsStayInPlace ==
    [][RunWithRuntime =>
        LET before == code_block.objects
            after == code_block'.objects
            Annotated(objects, i) ==
                i <= Len(objects) /\ objects[i].widget = "PythonObjDescription"
        IN
        /\ (/\ Len(after) = Len(before)
            /\ \A i \in 3..Len(before) : after[i].widget = before[i].widget)
           => \A i \in 3..Len(before) :
                Annotated(before, i)
                => after[i].description.value = before[i].description.value
        /\ \A i \in 3..Len(after) :
             IF Annotated(after, i)
                 THEN \/ after[i].description.value = <<>>
                      \/ /\ Annotated(before, i)
                         /\ after[i].description.value = before[i].description.value
                 ELSE "description" \notin DOMAIN after[i]
    ]_vars

\* straight after a Run, two annotated objects with the descriptions typed
\* before it, next to a text output
C16_Witness ==
    /\ event = "click"
    /\ clicks >= 2
    /\ run_exc = ""
    /\ Len(code_block.objects) = 4
    /\ code_block.objects[3].widget = "PythonObjDescription"
    /\ code_block.objects[3].description.value = <<"n">>
    /\ code_block.objects[4].widget = "PythonObjDescription"
    /\ code_block.objects[4].description.value = <<"m">>

\* C17: a Run click on a block without a runtime disables the Run button
\* and names it 'No Run Time', calls no run_code, raises nothing, and leaves
\* the editor and every other object of the block as they were.
C17_NoRuntimeOnlyDisables ==
    [][(clicks' = clicks + 1 /\ code_block.run_time = None) =>
        /\ code_block' = [code_block EXCEPT
                             !.run_button = [widget |-> "Button", name |-> "No Run Time",
                                             disabled |-> TRUE]]
        /\ run_exc' = ""
        /\ code' = code
        /\ outcome' = outcome
        /\ outcome' = NoCall
    ]_vars

\* a block without a runtime straight after a click, its code edited before
C17_Witness ==
    /\ code_block.run_time = None
    /\ event = "click"
    /\ code_block.run_button.disabled
    /\ code_block.run_button.name = "No Run Time"
    /\ code_block.code_widget.value = <<"b">>
    /\ code_block.objects = <<Ref("code_widget"), Ref("run_button")>>
    /\ outcome = NoCall


(***************************************************************************)
(* The conversation as a state machine: the user submits messages while    *)
(* the chat box is enabled, the event loop runs the scheduled watcher      *)
(* calls one at a time, each up to its end or to its await of the model,   *)
(* and the model streams the tokens of a reply and then returns.           *)
(***************************************************************************)
MaxTurns == 2
MaxStreamed == 2

UserTexts == {<<"a">>}
ReplyTokens == {<<"a">>, <<"b">>}

\* what a model call that streamed no token may return
UnstreamedReplies == {<<"b">>}

\* the state the coroutines work on, and its write-back
ChatState(scheduled) == [self |-> conversation, scheduled |-> scheduled, rows |-> loop.rows]

InitChat ==
    /\ imports = <<>>
    /\ validator = None
    /\ variables = <<>>
    /\ namespace = <<>>
    /\ code = <<>>
    /\ pre = <<>>
    /\ outcome = NoCall
    /\ MdIdle
    /\ RowIdle
    /\ BlockIdle
    /\ conversation = LLMConversation(BaseCodeRunTime)
    /\ loop = NoLoop
    /\ turns = 0

\* the user sends a message: the chat box appends {"You": text}
Submit(text_) ==
    /\ ~conversation.chat_box.disabled
    /\ turns < MaxTurns
    /\ LET st == ChatBoxAppend(ChatState(loop.scheduled), Message("You", StrContent(text_)))
       IN  /\ conversation' = st.self
           /\ loop' = [loop EXCEPT !.scheduled = st.scheduled]
    /\ turns' = turns + 1
    /\ UNCHANGED <<rtvars, mdvars, rowvars, blockvars>>

\* the event loop starts the watcher call at the head of its queue, a call
\* of the decorated _chat: inputs disabled, _chat up to its await; a call
\* that ends there enables the inputs again in its finally
StartChat ==
    /\ loop.scheduled /= <<>>
    /\ Head(loop.scheduled).call = "_chat"
    /\ LET event_ == Head(loop.scheduled)
           began == ChatToAwait(ChatState(Tail(loop.scheduled)), event_)
           id == CHOOSE n \in 1..(Len(loop.awaiting) + 1) :
                     \A i \in DOMAIN loop.awaiting : loop.awaiting[i].id /= n
       IN  /\ conversation' = _disable_inputs(began.st.self, began.status)
           /\ loop' = [loop EXCEPT
                       !.scheduled = began.st.scheduled,
                       !.rows = began.st.rows,
                       !.awaiting = IF began.status = "awaiting"
                                        THEN Append(loop.awaiting,
                                                    [id |-> id,
                                                     event |-> event_,
                                                     handler |-> StreamHandler,
                                                     tokens |-> <<>>,
                                                     returned |-> FALSE,
                                                     reply |-> <<>>,
                                                     exc |-> ""])
                                        ELSE loop.awaiting,
                       !.invoked = IF began.status = "awaiting" THEN @ + 1 ELSE @]
    /\ UNCHANGED <<turns, rtvars, mdvars, rowvars, blockvars>>

\* the model streams one more token of the reply a coroutine awaits
NewToken(i, token) ==
    /\ i \in DOMAIN loop.awaiting
    /\ ~loop.awaiting[i].returned
    /\ loop.streamed < MaxStreamed
    /\ LET told == on_llm_new_token(loop.awaiting[i].handler, ChatState(loop.scheduled), token)
       IN  /\ conversation' = told.st.self
           /\ loop' = [loop EXCEPT
                       !.scheduled = told.st.scheduled,
                       !.awaiting[i].handler = told.handler,
                       !.awaiting[i].tokens = Append(@, token),
                       !.streamed = @ + 1]
    /\ UNCHANGED <<turns, rtvars, mdvars, rowvars, blockvars>>

\* the model call of a coroutine returns its reply, which is the text streamed
\* so far when tokens were streamed, and a text that was not streamed
\* otherwise: the event loop is to resume the coroutine
ModelReturns(i, reply) ==
    /\ i \in DOMAIN loop.awaiting
    /\ ~loop.awaiting[i].returned
    /\ reply \in IF loop.awaiting[i].tokens = <<>>
                     THEN UnstreamedReplies
                     ELSE {loop.awaiting[i].handler.text}
    /\ loop' = [loop EXCEPT
                    !.scheduled = Append(@, [call |-> "resume", new |-> <<>>,
                                             id |-> loop.awaiting[i].id]),
                    !.awaiting[i].returned = TRUE,
                    !.awaiting[i].reply = reply]
    /\ UNCHANGED <<conversation, turns, rtvars, mdvars, rowvars, blockvars>>

\* the model call of a coroutine raises: the event loop is to resume the
\* coroutine with the exception
ModelRaises(i) ==
    /\ i \in DOMAIN loop.awaiting
    /\ ~loop.awaiting[i].returned
    /\ loop' = [loop EXCEPT
                    !.scheduled = Append(@, [call |-> "resume", new |-> <<>>,
                                             id |-> loop.awaiting[i].id]),
                    !.awaiting[i].returned = TRUE,
                    !.awaiting[i].exc = "Exception"]
    /\ UNCHANGED <<conversation, turns, rtvars, mdvars, rowvars, blockvars>>

\* the coroutine the resumption at the head of the queue is for
Resumed ==
    loop.awaiting[CHOOSE i \in DOMAIN loop.awaiting :
                      loop.awaiting[i].id = Head(loop.scheduled).id]

\* the event loop resumes the coroutine at the head of its queue, which runs
\* to its end: after a reply the chain saves the turn to its memory, then
\* the callbacks and _show_history; after an exception of the model call
\* nothing; and the finally of the decorator
EndOfResponse ==
    /\ loop.scheduled /= <<>>
    /\ Head(loop.scheduled).call = "resume"
    /\ LET st == ChatState(Tail(loop.scheduled))
           input == Resumed.event.new[Len(Resumed.event.new)].content.value
           ended == IF Resumed.exc = ""
                        THEN ChatAfterAwait(save_context(st, input, Resumed.reply))
                        ELSE [exc |-> Resumed.exc, st |-> st]
       IN  /\ conversation' = _disable_inputs(ended.st.self,
                                              IF ended.exc = "" THEN "returned" ELSE "raised")
           /\ loop' = [loop EXCEPT
                       !.scheduled = ended.st.scheduled,
                       !.rows = ended.st.rows,
                       !.awaiting = SelectSeq(@, LAMBDA task : task.id /= Head(loop.scheduled).id)]
    /\ UNCHANGED <<turns, rtvars, mdvars, rowvars, blockvars>>

NextChat ==
    \/ \E text_ \in UserTexts : Submit(text_)
    \/ StartChat
    \/ \E i \in DOMAIN loop.awaiting, token \in ReplyTokens : NewToken(i, token)
    \/ \E i \in DOMAIN loop.awaiting :
           \E reply \in {loop.awaiting[i].handler.text} \cup UnstreamedReplies : ModelReturns(i, reply)
    \/ EndOfResponse

SpecChat == InitChat /\ [][NextChat]_vars

(***************************************************************************)
(* The conversation with a model whose calls may also fail.                *)
(***************************************************************************)
TurnTexts == {<<"a">>}
TurnTokens == {<<"a">>}

NextTurns ==
    \/ \E text_ \in TurnTexts : Submit(text_)
    \/ StartChat
    \/ \E i \in DOMAIN loop.awaiting, token \in TurnTokens : NewToken(i, token)
    \/ \E i \in DOMAIN loop.awaiting :
           \E reply \in {loop.awaiting[i].handler.text} \cup UnstreamedReplies : ModelReturns(i, reply)
    \/ \E i \in DOMAIN loop.awaiting : ModelRaises(i)
    \/ EndOfResponse

SpecTurns == InitChat /\ [][NextTurns]_vars

\* the coroutines of _chat whose model call has not returned yet
Waiting == {i \in DOMAIN loop.awaiting : ~loop.awaiting[i].returned}

\* C18: from the moment _chat starts handling a user message until the
\* model's reply for that turn is complete, the inputs of the chat box are
\* disabled, and no second turn is handled beside it.
C18_InputsDisabledDuringTurn ==
    Waiting /= {} => (conversation.chat_box.disabled /\ Len(loop.awaiting) = 1)

RECURSIVE Concatenation(_)
\* the tokens of a stream, one after the other
Concatenation(tokens) ==
    IF tokens = <<>> THEN <<>> ELSE Head(tokens) \o Concatenation(Tail(tokens))

\* the last message the chat box shows
LastMessage(self) == self.chat_box.value[Len(self.chat_box.value)]

\* C19: when the k-th token of a turn's stream has been handled, the last
\* message of the chat box is the AI message whose text is the tokens 1..k
\* of that stream in their order of arrival, none dropped, doubled or moved;
\* and the text of a turn's handler is empty when the turn starts to wait.
C19_TokensInOrder ==
    [][/\ \A i \in DOMAIN loop.awaiting :
              (/\ i \in DOMAIN loop'.awaiting
               /\ loop'.awaiting[i].id = loop.awaiting[i].id
               /\ loop'.awaiting[i].tokens /= loop.awaiting[i].tokens)
              => /\ loop'.awaiting[i].handler.text = Concatenation(loop'.awaiting[i].tokens)
                 /\ LastMessage(conversation') =
                        Message("AI", ListContent(Concatenation(loop'.awaiting[i].tokens)))
       /\ Len(loop'.awaiting) > Len(loop.awaiting)
              => loop'.awaiting[Len(loop'.awaiting)].handler.text = <<>>
      ]_vars

\* a turn has streamed two different tokens, and the chat box shows them in
\* their order of arrival as the pending reply
C19_Witness ==
    /\ turns = 1
    /\ conversation.memory = <<[role |-> "human", content |-> <<"a">>]>>
    /\ Len(loop.awaiting) = 1
    /\ loop.awaiting[1].tokens = <<<<"b">>, <<"a">>>>
    /\ LastMessage(conversation) = Message("AI", ListContent(<<"b", "a">>))

\* a message without the identity of its row, and the messages of a list so
Shown(message) ==
    IF message.content.widget = "TextCodeRow"
        THEN Message(message.user, [widget |-> "TextCodeRow",
                                    run_time |-> message.content.run_time,
                                    objects |-> message.content.objects])
        ELSE message
ShownList(messages) == [m \in DOMAIN messages |-> Shown(messages[m])]

\* the row the user's message of a coroutine's event is turned into
UserRow(task) ==
    LET user_message == task.event.new[Len(task.event.new)]
    IN  Message("You", TextCodeRow(user_message.content.value, None))

\* the messages of the chat box before the user's message of the event
HistoryBefore(task) == SubSeq(task.event.new, 1, Len(task.event.new) - 1)

\* the row the reply streamed to a coroutine is turned into
ReplyRow(task) ==
    Message("AI", TextCodeRow(Concatenation(task.tokens), conversation.run_time))

\* C20: while a turn waits for the model, the chat box shows exactly two
\* messages, the user's row and the pending reply, and _hidden_history is
\* True; when the coroutine of the turn has run to its end after the reply,
\* _hidden_history is False and the chat box shows the history from before
\* the turn, then the user's row, then the row of the final reply.
C20_HistoryHiddenThenRestored ==
    [][/\ \A i \in DOMAIN loop'.awaiting :
              ~loop'.awaiting[i].returned
              => /\ conversation'._hidden_history
                 /\ Len(conversation'.chat_box.value) = 2
                 /\ Shown(conversation'.chat_box.value[1]) = UserRow(loop'.awaiting[i])
                 /\ conversation'.chat_box.value[2].user = "AI"
       /\ \A i \in DOMAIN loop.awaiting :
              (/\ loop.awaiting[i].exc = ""
               /\ \A j \in DOMAIN loop'.awaiting : loop'.awaiting[j].id /= loop.awaiting[i].id)
              => /\ ~conversation'._hidden_history
                 /\ ShownList(conversation'.chat_box.value) =
                        ShownList(HistoryBefore(loop.awaiting[i]))
                        \o <<UserRow(loop.awaiting[i]), ReplyRow(loop.awaiting[i])>>
      ]_vars

\* a step in which a call of the decorated _chat ends: a coroutine that
\* awaited the model is gone, or the event loop has taken a watcher call from
\* its queue that did not get to the await
CallEnds ==
    \/ Len(loop'.awaiting) < Len(loop.awaiting)
    \/ /\ loop'.scheduled /= loop.scheduled
       /\ loop'.awaiting = loop.awaiting
       /\ loop'.streamed = loop.streamed
       /\ turns' = turns

\* C23: after every call of _chat ends, by a normal return, by the early
\* return for a last message that is not the user's, or by an exception of
\* the model call or of any other step, chat_box.disabled is False.
C23_InputsEnabledAfterCall ==
    [][CallEnds => ~conversation'.chat_box.disabled]_vars

\* the call of the only turn so far has ended with the exception of its
\* model call, which leaves the history hidden
C23_Witness ==
    /\ turns = 1
    /\ loop.invoked = 1
    /\ loop.awaiting = <<>>
    /\ loop.scheduled = <<>>
    /\ conversation._hidden_history
    /\ LastMessage(conversation) = Message("AI", Spinner)
    /\ ~conversation.chat_box.disabled

\* the coroutines that end in this step after their model call completed
EndsAfterReply ==
    {i \in DOMAIN loop.awaiting :
        /\ loop.awaiting[i].exc = ""
        /\ \A j \in DOMAIN loop'.awaiting : loop'.awaiting[j].id /= loop.awaiting[i].id}

\* C24: after every turn whose model call completes, _hidden_history is
\* False and the chat box shows the messages from before the turn, then the
\* turn's user message, then the turn's reply as the last message; also in
\* runs in which the model call of an earlier turn raised.
C24_TurnEndsWithMessageAndReply ==
    [][\A i \in EndsAfterReply :
           LET value == conversation'.chat_box.value
               n == Len(value)
           IN  /\ ~conversation'._hidden_history
               /\ n = Len(loop.awaiting[i].event.new) + 1
               /\ Shown(value[n]) = ReplyRow(loop.awaiting[i])
               /\ Shown(value[n - 1]) = UserRow(loop.awaiting[i])
               /\ ShownList(SubSeq(value, 1, n - 2)) = ShownList(HistoryBefore(loop.awaiting[i]))
      ]_vars

\* nothing is scheduled on the event loop and no coroutine awaits the model
Quiet == loop.scheduled = <<>> /\ loop.awaiting = <<>>

\* C25: the model is invoked exactly once per message the user submits and
\* for no other change of the chat box value: never more calls than
\* messages, and as many calls as messages once every watcher call has run.
C25_OneModelCallPerMessage ==
    /\ loop.invoked <= turns
    /\ Quiet => loop.invoked = turns

(***************************************************************************)
(* The transcript: a conversation whose replies hold Python code blocks,   *)
(* with the user running and editing the blocks of the rows the chat box   *)
(* shows, at any moment, and the application attaching another runtime.    *)
(***************************************************************************)
TranscriptTexts == {<<"a">>, <<" ">>}

\* a reply token that is one fenced Python block
CodeToken == Fence \o Python \o <<"\n", "a", "\n">> \o Fence

TranscriptTokens == {CodeToken}

TranscriptResults == {Returned(StrValue("hi"), TRUE), Returned(DictValue("{'k': 1}"), TRUE)}

InitTranscript ==
    /\ imports = <<>>
    /\ validator = None
    /\ variables = <<>>
    /\ namespace = <<>>
    /\ code = <<>>
    /\ pre = <<>>
    /\ outcome = NoCall
    /\ MdIdle
    /\ RowIdle
    /\ BlockIdle
    /\ conversation \in {LLMConversation(run_time) : run_time \in {None, BaseCodeRunTime}}
    /\ loop = NoLoop
    /\ turns = 0

\* the k-th object of the row of the m-th message is a Python code block
IsRowBlock(m, k) ==
    /\ m \in DOMAIN conversation.chat_box.value
    /\ conversation.chat_box.value[m].content.widget = "TextCodeRow"
    /\ k \in DOMAIN conversation.chat_box.value[m].content.objects
    /\ conversation.chat_box.value[m].content.objects[k].widget = "PythonCodeBlock"

RowBlock(m, k) == conversation.chat_box.value[m].content.objects[k]

\* a list of messages with the k-th object of the row that has this id
\* changed to block
InMessages(messages, id, k, block) ==
    [j \in DOMAIN messages |->
        IF messages[j].content.widget = "TextCodeRow" /\ messages[j].content.id = id
            THEN [messages[j] EXCEPT !.content.objects[k] = block]
            ELSE messages[j]]

\* the conversation with that block changed; the row is one object, also
\* where the history saved by _hide_history lists it
WithRowBlock(m, k, block) ==
    [conversation EXCEPT
        !.chat_box.value = InMessages(@, conversation.chat_box.value[m].content.id, k, block),
        !.chat_history = InMessages(@, conversation.chat_box.value[m].content.id, k, block)]

\* the event loop with that block changed in the events of the watcher
\* calls that hold the row
LoopWithRowBlock(m, k, block) ==
    LET id == conversation.chat_box.value[m].content.id IN
    [loop EXCEPT
        !.scheduled = [j \in DOMAIN @ |->
                          [@[j] EXCEPT !.new = InMessages(@, id, k, block)]],
        !.awaiting = [j \in DOMAIN @ |->
                         [@[j] EXCEPT !.event.new = InMessages(@, id, k, block)]]]

\* the user clicks the Run button of a block of a row the chat box shows:
\* run(event) of that block, run_code returning result if run calls it
ClickRowRun(m, k, result) ==
    /\ clicks < MaxClicks
    /\ IsRowBlock(m, k)
    /\ ~RowBlock(m, k).run_button.disabled
    /\ \E r \in {run(RowBlock(m, k), result)} :
        /\ conversation' = WithRowBlock(m, k, r.block)
        /\ loop' = LoopWithRowBlock(m, k, r.block)
        /\ run_exc' = r.exc
        /\ code' = IF r.called THEN RowBlock(m, k).code_widget.value ELSE code
        /\ outcome' = IF r.called THEN result ELSE outcome
    /\ clicks' = clicks + 1
    /\ event' = "click"
    /\ UNCHANGED <<imports, validator, variables, namespace, pre, mdvars, rowvars,
                   code_block, turns>>

\* the user edits the code in the editor of a block of a row the chat box
\* shows
EditRowCode(m, k, value) ==
    /\ IsRowBlock(m, k)
    /\ RowBlock(m, k).code_widget.value /= value
    /\ \E block \in {[RowBlock(m, k) EXCEPT !.code_widget.value = value]} :
        /\ conversation' = WithRowBlock(m, k, block)
        /\ loop' = LoopWithRowBlock(m, k, block)
    /\ event' = "input"
    /\ UNCHANGED <<clicks, run_exc, code_block, turns, rtvars, mdvars, rowvars>>

\* the application attaches a runtime to the conversation
SetRunTime(run_time) ==
    /\ conversation.run_time /= run_time
    /\ \E r \in {set_run_time(conversation, run_time)} :
        /\ conversation' = r.self
        /\ run_exc' = r.exc
    /\ event' = "set_run_time"
    /\ UNCHANGED <<clicks, code_block, loop, turns, rtvars, mdvars, rowvars>>

NextTranscript ==
    \/ \E text_ \in TranscriptTexts : Submit(text_)
    \/ StartChat
    \/ \E i \in DOMAIN loop.awaiting, token \in TranscriptTokens : NewToken(i, token)
    \/ \E i \in DOMAIN loop.awaiting :
           \E reply \in {loop.awaiting[i].handler.text} \cup UnstreamedReplies : ModelReturns(i, reply)
    \/ EndOfResponse
    \/ \E m \in 1..(2 * MaxTurns), k \in 1..(2 * MaxStreamed), result \in TranscriptResults :
           ClickRowRun(m, k, result)
    \/ \E m \in 1..(2 * MaxTurns), k \in 1..(2 * MaxStreamed), value \in EditorCodes :
           EditRowCode(m, k, value)
    \/ \E run_time \in {None, BaseCodeRunTime} : SetRunTime(run_time)

SpecTranscript == InitTranscript /\ [][NextTranscript]_vars

\* a step in which the event loop starts the watcher call for a message the
\* user has submitted
StartsUserTurn ==
    /\ StartChat
    /\ LastMessage([chat_box |-> [value |-> Head(loop.scheduled).new]]).user = "You"
    /\ LastMessage([chat_box |-> [value |-> Head(loop.scheduled).new]]).content.widget = "str"

\* the chat history at the start of that turn: the messages of the chat box
\* with the user's message, the last one, as its rendered row
HistoryAtStart ==
    LET value == conversation.chat_box.value
        user_message == Head(loop.scheduled).new[Len(Head(loop.scheduled).new)]
    IN  [value EXCEPT ![Len(value)] =
            Message("You", TextCodeRow(user_message.content.value, None))]

\* one memory message per row: human for a user row, ai for an assistant
\* row, the content being the row's serialized text
MemoryOf(rows) ==
    [m \in DOMAIN rows |->
        [role |-> IF rows[m].user = "You" THEN "human" ELSE "ai",
         content |-> get_information(rows[m].content).text]]

\* C21: at the start of every user turn, before the model is invoked, the
\* memory becomes exactly one message per row of the chat history at that
\* moment, in order, human for user rows and ai for assistant rows, with
\* the current serialized text of the row (edited code and outputs of runs
\* included), and the model is then invoked.
C21_MemoryIsTheTranscript ==
    [][StartsUserTurn
       => /\ \A m \in DOMAIN HistoryAtStart :
                 /\ HistoryAtStart[m].content.widget = "TextCodeRow"
                 /\ get_information(HistoryAtStart[m].content).exc = ""
          /\ conversation'.memory = MemoryOf(HistoryAtStart)
          /\ Len(loop'.awaiting) = Len(loop.awaiting) + 1
      ]_vars

\* C22: get_information of every row of the chat returns text, whatever the
\* Runs of its Python code blocks have put into them.
C22_RowsSerialize ==
    \A m \in DOMAIN conversation.chat_box.value :
        conversation.chat_box.value[m].content.widget = "TextCodeRow"
        => get_information(conversation.chat_box.value[m].content).exc = ""

\* C26: once a runtime is attached to the conversation, a Run click on a
\* Python code block of an AI message of the history runs the code through
\* that runtime, also for blocks rendered before it was attached.
C26_RunUsesAttachedRuntime ==
    [][\A m \in DOMAIN conversation.chat_box.value :
           \A k \in 1..(2 * MaxStreamed) :
               (/\ clicks' = clicks + 1
                /\ conversation.run_time /= None
                /\ conversation.chat_box.value[m].user = "AI"
                /\ IsRowBlock(m, k)
                /\ conversation'.chat_box.value[m].content.objects[k] /= RowBlock(m, k))
               => /\ RowBlock(m, k).run_time = conversation.run_time
                  /\ ~conversation'.chat_box.value[m].content.objects[k].run_button.disabled
      ]_vars

(***************************************************************************)
(* The editable chat row (chat_elements copy.py).  Its TextCodeRow renders *)
(* its widgets in create_widgets, the loops of the constructor of          *)
(* chat_elements.py, and ends with an Edit button; Edit replaces the       *)
(* widgets by one text area holding get_text() and a Finish Editing        *)
(* button, Finish Editing renders the text of the text area again.  Its    *)
(* PythonCodeBlock has the constructor and the run of chat_elements.py.    *)
(***************************************************************************)
TextAreaInput(value) == [widget |-> "TextAreaInput", value |-> value]

\* what get_text returns or raises
GotText(text_) == [exc |-> "", text |-> text_]
GetTextFails(exc) == [exc |-> exc, text |-> <<>>]

\* PythonObjDescription.get_text: the description and a line break, or
\* nothing for an empty description
ObjDescriptionText(self) ==
    IF self.description.value /= <<>> THEN self.description.value \o <<"\n">> ELSE <<>>

RECURSIVE BlockText(_, _, _)
\* the loop of PythonCodeBlock.get_text from the i-th object on, acc being
\* the text so far; adding a line break to the object of a JSON pane, a
\* dict or a list, is a TypeError
BlockText(self, i, acc) ==
    IF i > Len(self.objects) THEN GotText(acc)
    ELSE LET element == Deref(self, self.objects[i]) IN
         IF element.widget = "StaticText"
             THEN BlockText(self, i + 1, acc \o element.value \o <<"\n">>)
         ELSE IF element.widget = "Alert"
             THEN BlockText(self, i + 1, acc \o element.object \o <<"\n">>)
         ELSE IF element.widget = "JSON"
             THEN GetTextFails("TypeError")
         ELSE IF element.widget = "CodeEditor"
             THEN BlockText(self, i + 1, acc \o MarkdownCode(element) \o <<"\n">>)
         ELSE IF element.widget = "TextInput"
             THEN BlockText(self, i + 1, acc \o element.value \o <<"\n">>)
         ELSE IF element.widget = "PythonObjDescription"
             THEN BlockText(self, i + 1, acc \o ObjDescriptionText(element) \o <<"\n">>)
         ELSE BlockText(self, i + 1, acc)

RECURSIVE RowText(_, _, _)
\* the loop of TextCodeRow.get_text from the i-th object on; dividers,
\* buttons and the text area are none of the three classes
RowText(self, i, acc) ==
    IF i > Len(self.objects) THEN GotText(acc)
    ELSE LET element == self.objects[i] IN
         IF element.widget = "StaticText"
             THEN RowText(self, i + 1, acc \o element.value \o <<"\n">>)
         ELSE IF element.widget = "CodeEditor"
             THEN RowText(self, i + 1, acc \o MarkdownCode(element) \o <<"\n">>)
         ELSE IF element.widget = "PythonCodeBlock"
             THEN LET inner == BlockText(element, 1, <<>>) IN
                  IF inner.exc /= "" THEN inner
                  ELSE RowText(self, i + 1, acc \o inner.text \o <<"\n">>)
         ELSE RowText(self, i + 1, acc)

\* PythonObjDescription.__init__ of the editable row's file: as in
\* chat_elements.py, but the Hide button is not appended
WithoutHideButtons(block) ==
    [block EXCEPT !.objects =
        [k \in DOMAIN @ |->
            IF @[k].widget = "PythonObjDescription"
                THEN [@[k] EXCEPT !.objects = <<Ref("object"), Ref("description")>>]
                ELSE @[k]]]

\* get_text of a row or of a block
get_text(self) ==
    IF self.widget = "TextCodeRow" THEN RowText(self, 1, <<>>)
    ELSE BlockText(self, 1, <<>>)

\* TextCodeRow.create_widgets: the row with the widgets of text_ as its
\* objects, dividers between them
create_widgets(self, text_) ==
    LET widgets == RowWidgets(SplitOnFence(text_), 0, self.run_time) IN
    [self EXCEPT !.objects = InsertDividers(widgets, 0, Len(widgets))]

\* TextCodeRow.__init__ of the editable row
EditableTextCodeRow(text_, run_time) ==
    LET created == create_widgets([widget |-> "TextCodeRow", run_time |-> run_time,
                                   objects |-> <<>>, edit_enabled |-> FALSE], text_)
    IN  [created EXCEPT !.objects = Append(@, Button("Edit"))]

\* enable_editing changed to act also while the row is being edited
enable_editing_while_editing(self) ==
    LET current_text == get_text(self) IN
    IF current_text.exc /= "" THEN [self |-> self, exc |-> current_text.exc]
    ELSE [self |-> [self EXCEPT !.objects = <<TextAreaInput(current_text.text),
                                              Button("Finish Editing")>>,
                                !.edit_enabled = TRUE],
          exc |-> ""]

\* TextCodeRow.enable_editing(event): [the row afterwards, the exception it
\* ends with or ""]
enable_editing(self) ==
    IF self.edit_enabled THEN [self |-> self, exc |-> ""]
    ELSE LET current_text == get_text(self) IN
         IF current_text.exc /= "" THEN [self |-> self, exc |-> current_text.exc]
         ELSE [self |-> [self EXCEPT !.objects = <<TextAreaInput(current_text.text),
                                                   Button("Finish Editing")>>,
                                     !.edit_enabled = TRUE],
               exc |-> ""]

\* TextCodeRow.finish_editing(event)
finish_editing(self) ==
    IF ~self.edit_enabled THEN [self |-> self, exc |-> ""]
    ELSE LET created == create_widgets(self, self.objects[1].value) IN
         [self |-> [created EXCEPT !.objects = Append(@, Button("Edit")),
                                   !.edit_enabled = FALSE],
          exc |-> ""]

MaxEditTokens == 3       \* tokens of the text an editable row is built from

EditTokens == {Fence \o Python \o <<"\n">>, <<"\n">> \o Fence, Fence, <<"a">>}

EditTexts == {Concat(t) : t \in Blocks(EditTokens, MaxEditTokens)}

\* the texts the user leaves in the text area
TypedTexts == {<<"b">>, Fence \o <<"b">> \o Fence}

EditResults ==
    {Returned(StrValue("hi"), TRUE), Returned(DictValue("{'k': 1}"), TRUE),
     Returned(IntValue("4"), TRUE), Raised("ValueError", "bad")}

InitEdit ==
    /\ row_text \in EditTexts
    /\ row \in {EditableTextCodeRow(row_text, run_time) :
                    run_time \in {None, BaseCodeRunTime}}
    /\ information = NoInformation
    /\ imports = <<>>
    /\ validator = None
    /\ variables = <<>>
    /\ namespace = <<>>
    /\ code = <<>>
    /\ pre = <<>>
    /\ outcome = NoCall
    /\ MdIdle
    /\ BlockIdle
    /\ ChatIdle

\* a click on Edit, or any other call of the handler of the Edit button
ClickEdit ==
    /\ \E r \in {enable_editing(row)} :
        /\ row' = r.self
        /\ run_exc' = r.exc
    /\ event' = "Edit"
    /\ UNCHANGED <<row_text, information, code_block, clicks, rtvars, mdvars, chatvars>>

\* a click on Finish Editing, or any other call of its handler
ClickFinishEditing ==
    /\ \E r \in {finish_editing(row)} :
        /\ row' = r.self
        /\ run_exc' = r.exc
    /\ event' = "Finish Editing"
    /\ UNCHANGED <<row_text, information, code_block, clicks, rtvars, mdvars, chatvars>>

\* the user replaces the text in the text area
TypeText(value) ==
    /\ row.edit_enabled
    /\ row.objects[1].value /= value
    /\ row' = [row EXCEPT !.objects[1].value = value]
    /\ event' = "input"
    /\ UNCHANGED <<row_text, information, code_block, clicks, run_exc, rtvars, mdvars,
                   chatvars>>

\* a click on the Run button of the k-th object of the row, a Python block
ClickRunInRow(k, result) ==
    /\ clicks < MaxClicks
    /\ k \in DOMAIN row.objects
    /\ row.objects[k].widget = "PythonCodeBlock"
    /\ ~row.objects[k].run_button.disabled
    /\ \E r \in {run(row.objects[k], result)} :
        /\ row' = [row EXCEPT !.objects[k] = WithoutHideButtons(r.block)]
        /\ run_exc' = r.exc
        /\ code' = IF r.called THEN row.objects[k].code_widget.value ELSE code
        /\ outcome' = IF r.called THEN result ELSE outcome
    /\ clicks' = clicks + 1
    /\ event' = "click"
    /\ UNCHANGED <<row_text, information, code_block, imports, validator, variables,
                   namespace, pre, mdvars, chatvars>>

NextEdit ==
    \/ ClickEdit
    \/ ClickFinishEditing
    \/ \E value \in TypedTexts : TypeText(value)
    \/ \E k \in 1..(2 * MaxEditTokens), result \in EditResults : ClickRunInRow(k, result)

SpecEdit == InitEdit /\ [][NextEdit]_vars

\* the row shows one text area followed by the Finish Editing button
ShowsTextArea ==
    /\ Len(row.objects) = 2
    /\ row.objects[1].widget = "TextAreaInput"
    /\ row.objects[2] = Button("Finish Editing")

\* the row shows rendered prose and code widgets, then one Edit button and
\* no other button or text area
ShowsRendered ==
    /\ row.objects /= <<>>
    /\ row.objects[Len(row.objects)] = Button("Edit")
    /\ \A k \in 1..(Len(row.objects) - 1) :
           row.objects[k].widget \in {"StaticText", "CodeEditor", "PythonCodeBlock", "Divider"}
    /\ LET shown == SubSeq(row.objects, 1, Len(row.objects) - 1)
           widgets == [j \in 1..((Len(shown) + 1) \div 2) |-> shown[2 * j - 1]]
       IN  shown = InsertDividers(widgets, 0, Len(widgets))

\* C27: in every state the Edit and Finish Editing clicks lead to,
\* edit_enabled is True exactly when the row is one text area followed by
\* the Finish Editing button, and False exactly when it is its rendered
\* widgets followed by one Edit button; Edit while editing and Finish
\* Editing while not editing leave the row as it is.
C27_EditStateMatchesWidgets ==
    /\ [](/\ row.edit_enabled <=> ShowsTextArea
          /\ ~row.edit_enabled <=> ShowsRendered)
    /\ [][/\ (event' = "Edit" /\ row.edit_enabled) => row' = row
          /\ (event' = "Finish Editing" /\ ~row.edit_enabled) => row' = row
         ]_vars

\* after a Run of one of its blocks the row was edited: Edit showed the text
\* area, the user left a fenced block in it, and Finish Editing rendered it
C27_Witness ==
    /\ event = "Finish Editing"
    /\ clicks > 0
    /\ ~row.edit_enabled
    /\ row.objects = <<CodeEditor(<<"b">>, <<>>), Button("Edit")>>

\* the prose texts and code blocks of a rendered row, in order
ProseAndCode(self) ==
    LET kept == SelectSeq(self.objects,
                          LAMBDA w : w.widget \in {"StaticText", "CodeEditor",
                                                   "PythonCodeBlock"})
    IN  [j \in DOMAIN kept |->
            IF kept[j].widget = "StaticText"
                THEN [segment |-> "prose", language |-> <<>>, value |-> kept[j].value]
            ELSE IF kept[j].widget = "CodeEditor"
                THEN [segment |-> "code", language |-> kept[j].language,
                      value |-> kept[j].value]
            ELSE [segment |-> "code", language |-> kept[j].code_widget.language,
                  value |-> kept[j].code_widget.value]]

\* C28: from every state of a rendered row, a click on Edit followed by a
\* click on Finish Editing, the text left as it is, gives a row with the
\* same prose texts and code blocks, in the same order, and no further one.
C28_EditFinishKeepsSegments ==
    ~row.edit_enabled
    => /\ enable_editing(row).exc = ""
       /\ ProseAndCode(finish_editing(enable_editing(row).self).self) = ProseAndCode(row)

====
